---- MODULE Spec2Model ----
(***************************************************************************)
(* Model of the yeetbot decision-and-execution core:                       *)
(*   - DecisionEngine (src/src/services/DecisionEngine.ts)                 *)
(*   - the rules registered by createDecisionEngine                        *)
(*   - BotRunner's tick loop and its serialized executeYeet                *)
(*   - StateManager and the EventManager handlers that write to it         *)
(* Amounts are small integers (wei), percentages are basis points          *)
(* (1% = 100), times are whole seconds.                                    *)
(***************************************************************************)
EXTENDS Integers, Sequences, FiniteSets, TLC

VARIABLES
  rules,            \* DecisionEngine.rules: registered rule names, insertion order
  lastEvaluations,  \* DecisionEngine.lastEvaluations
  engCall,          \* observation of the last evaluate() call: outcomes seen, result
  now,              \* Date.now(), whole seconds
  auction,          \* StateManager.state.auction
  auctionParams,    \* StateManager.state.auctionParams
  bgtPerSecond,     \* StateManager.state.bgtPerSecond
  isInCooldown,     \* StateManager.state.isInCooldown
  stats,            \* StateManager.state.stats
  botPc,            \* BotRunner: "new", "fetched", "running", "stopped"
  isRunning,        \* BotRunner.isRunning
  checkInterval,    \* BotRunner.checkInterval is set
  yeetLockCount,    \* BotRunner.yeetLockCount
  reqs,             \* the callbacks chained on BotRunner.yeetMutex, in order
  lastExec,         \* observation of the serializer step just taken
  lastTick,         \* observation of the checkForOpportunity run just made
  emitted,          \* YeetEvent logs the chain has produced (tx: the run that sent it)
  handlers,         \* handleYeetEventLogs invocations in flight
  processedEvents,  \* EventManager.processedEvents (ids)
  applied,          \* per log: times it was applied to the auction state
  reported,         \* per log: times it was handed to onYeetCreated
  phaseCheck,       \* checkAuctionPhase invocation in flight
  manual,           \* the terminal dashboard's onForceYeet invocation in flight
  lifecycle,        \* pause()/resume() calls made, and the position of stop()
  calc              \* observation of the last call of a calculator or rule

engineVars == <<rules, lastEvaluations, engCall>>
stateVars == <<auction, auctionParams, bgtPerSecond, isInCooldown, stats>>
botCore == <<botPc, isRunning, checkInterval, yeetLockCount, reqs>>
botVars == <<botPc, isRunning, checkInterval, yeetLockCount, reqs, lastExec, lastTick>>
eventVars == <<emitted, handlers, processedEvents, applied, reported, phaseCheck>>

vars == <<rules, lastEvaluations, engCall, now, auction, auctionParams,
          bgtPerSecond, isInCooldown, stats, botPc, isRunning, checkInterval,
          yeetLockCount, reqs, lastExec, lastTick, emitted, handlers,
          processedEvents, applied, reported, phaseCheck, manual, lifecycle,
          calc>>

----------------------------------------------------------------------------
(* Bounds *)

MaxRules == 2          \* rules registered in the engine-only specification
MaxPriority == 2       \* priorities the mock rules of that specification use
MaxNow == 2            \* last clock reading
MaxRequests == 3       \* executeYeet calls per behaviour
MaxEvents == 2         \* YeetEvent logs per behaviour
MaxDeliveries == 2     \* deliveries of one log (at-least-once delivery)
MaxHandlers == 2       \* handleYeetEventLogs invocations in flight
MaxManual == 1         \* force-yeet key presses on the terminal dashboard
MaxCalcPrice == 5      \* largest price handed to a calculator or rule on its own
MaxCalcDuration == 3   \* longest decay, seconds
MaxCalcRate == 2       \* largest accrual rate handed to a calculator
MaxCalcSeconds == 5    \* last clock reading (seconds) handed to the accrual
MaxClockSteps == 10    \* last clock reading handed to the price, in clock steps
ClockStepMs == 500     \* granularity of those clock readings, milliseconds

----------------------------------------------------------------------------
(* Generic helpers *)

Max(a, b) == IF a >= b THEN a ELSE b
Min(a, b) == IF a <= b THEN a ELSE b

Range(s) == {s[i] : i \in 1..Len(s)}

\* BigInt division truncates toward zero
TruncDiv(a, b) == IF a >= 0 THEN a \div b ELSE -((-a) \div b)

----------------------------------------------------------------------------
(* DecisionEngine *)

\* A rule evaluation is one of: a thrown error, an evaluation without a
\* decision (decision: null), an evaluation with a decision.
NoDecision == [kind |-> "none", shouldYeet |-> FALSE, priority |-> 0,
               ruleName |-> "", reason |-> ""]
Thrown == [kind |-> "throw", shouldYeet |-> FALSE, priority |-> 0,
           ruleName |-> "", reason |-> ""]
Decision(sy, prio, name, why) ==
  [kind |-> "decision", shouldYeet |-> sy, priority |-> prio,
   ruleName |-> name, reason |-> why]

\* the literal of DecisionEngine.evaluate when no rule returned a decision
DefaultDecision == Decision(FALSE, 0, "", "No rules triggered")

NoEvaluations == [set |-> FALSE, decision |-> NoDecision, allEvaluations |-> <<>>]

\* decisions.push(decision) for every rule whose decision is not null
RECURSIVE CollectDecisions(_)
CollectDecisions(outs) ==
  IF outs = <<>> THEN <<>>
  ELSE IF Head(outs).kind = "decision"
       THEN <<Head(outs)>> \o CollectDecisions(Tail(outs))
       ELSE CollectDecisions(Tail(outs))

\* comparator of decisions.sort: (a, b) => b.priority - a.priority
ComparePriorityAsc(a, b) == a.priority - b.priority
ComparePriority(a, b) == b.priority - a.priority

\* a sort that is not stable: d goes before the elements it compares equal to
RECURSIVE InsertSortedUnstable(_, _)
InsertSortedUnstable(d, s) ==
  IF s = <<>> THEN <<d>>
  ELSE IF ComparePriority(Head(s), d) < 0
       THEN <<Head(s)>> \o InsertSortedUnstable(d, Tail(s))
       ELSE <<d>> \o s

\* Array.prototype.sort is stable: insert d after every element that does
\* not compare greater than it.
RECURSIVE InsertSorted(_, _)
InsertSorted(d, s) ==
  IF s = <<>> THEN <<d>>
  ELSE IF ComparePriority(Head(s), d) <= 0
       THEN <<Head(s)>> \o InsertSorted(d, Tail(s))
       ELSE <<d>> \o s

RECURSIVE SortDecisions(_)
SortDecisions(s) ==
  IF s = <<>> THEN <<>>
  ELSE InsertSorted(s[Len(s)], SortDecisions(SubSeq(s, 1, Len(s) - 1)))

\* decisions.find(d => !d.shouldYeet): index of the first match, 0 if none
FindBlockingNever(s) == 0
FindBlocking(s) ==
  IF \E i \in 1..Len(s) : ~s[i].shouldYeet
  THEN CHOOSE i \in 1..Len(s) :
         /\ ~s[i].shouldYeet
         /\ \A j \in 1..(i - 1) : s[j].shouldYeet
  ELSE 0

\* the "Determine final decision" block of evaluate
FinalDecisionNoDefault(decisions) ==
  LET sorted == SortDecisions(decisions)
      b == FindBlocking(sorted)
  IN IF decisions = <<>> THEN Decision(TRUE, 0, "", "No rules triggered")
     ELSE IF b # 0 THEN sorted[b] ELSE sorted[1]
FinalDecision(decisions) ==
  IF Len(decisions) = 0 THEN DefaultDecision
  ELSE LET sorted == SortDecisions(decisions)
           b == FindBlocking(sorted)
       IN IF b # 0 THEN sorted[b] ELSE sorted[1]

\* a trace that flags every rule as triggered
AllEvaluationsAllTriggered(names, outs) ==
  [i \in 1..Len(outs) |->
     [ruleName |-> names[i], decision |-> outs[i], triggered |-> TRUE]]

\* allEvaluations.push({ruleName, decision, triggered: decision !== null, ...})
AllEvaluations(names, outs) ==
  [i \in 1..Len(outs) |->
     [ruleName |-> names[i], decision |-> outs[i],
      triggered |-> outs[i].kind = "decision"]]

\* evaluate(context), given what each registered rule does on the context.
\* A throwing rule propagates out of the loop before anything is stored.
EngineEvaluate(names, outs) ==
  IF \E i \in 1..Len(outs) : outs[i].kind = "throw"
  THEN [threw |-> TRUE, decision |-> Thrown, allEvaluations |-> <<>>]
  ELSE [threw |-> FALSE,
        decision |-> FinalDecision(CollectDecisions(outs)),
        allEvaluations |-> AllEvaluations(names, outs)]

\* this.lastEvaluations after the call
StoreEvaluationsAlways(res, last) ==
  [set |-> TRUE, decision |-> res.decision, allEvaluations |-> res.allEvaluations]
StoreEvaluations(res, last) ==
  IF res.threw THEN last
  ELSE [set |-> TRUE, decision |-> res.decision,
        allEvaluations |-> res.allEvaluations]

\* the observation of the latest evaluate call: none yet
NoCall == [made |-> FALSE, outs |-> <<>>, result |-> NoDecision, threw |-> FALSE,
           names |-> <<>>]

----------------------------------------------------------------------------
(* Session configuration (Config / ConfigSchema) and fixed parameters *)

\* JS Infinity and undefined, for the number-valued fields that can hold them
Infinity == 1000000
Undefined == -Infinity

\* addresses as the chain reports them (checksum case); "" is what
\* fetchCurrentState stores when lastYeeted could not be read
OurAddress == "0xAa"
OtherAddress == "0xBb"
BlacklistedAddress == "0xCc"
ChainAddresses == {OurAddress, OtherAddress, BlacklistedAddress}

\* String.prototype.toLowerCase on the addresses of the model
toLowerCase(a) ==
  CASE a = "0xAa" -> "0xaa"
    [] a = "0xBb" -> "0xbb"
    [] a = "0xCc" -> "0xcc"
    [] OTHER -> a

\* isValidAddress: /^0x[a-fA-F0-9]{40}$/ (the model's addresses are
\* abbreviated; the empty string is the malformed one)
isValidAddress(a) == a \in ChainAddresses \cup {toLowerCase(b) : b \in ChainAddresses}

\* config.strategy.rules.blacklistedAddresses.map(a => a.toLowerCase())
CfgBlacklistedAddresses == {toLowerCase(BlacklistedAddress)}
\* new Set([this.blockchain.getAccount().address.toLowerCase()])
CfgOurWallets == {toLowerCase(OurAddress)}

\* parseEther(config.strategy.maxYeetAmount), in wei
MaxYeetAmountWei == 3
\* config.strategy.expectedAuctionDuration, seconds
ExpectedAuctionDuration == 2
\* config.strategy.rules.*, percentages in basis points
OthersProfitThreshold == 200
SelfProfitThreshold == 500
BlacklistProfitThreshold == 0
SnipeBufferSeconds == 3
\* config.strategy.rules.maxAuctionFactor (1.4), in the contract's basis points
CfgMaxAuctionFactor == 14000
BgtEqualsPriceBuffer == 0
MarketPriceDiscountThreshold == 500
\* config.strategy.profitThresholds, basis points
ProfitThresholds == {0, 1000, 2000, 4000, 6000}

BASIS_POINTS == 10000

\* RULE_PRIORITIES
PRIORITY_BGT_EQUALS_PRICE == 90
PRIORITY_BLACKLIST == 80
PRIORITY_SAFETY == 70
PRIORITY_SELF_PROTECTION == 60
PRIORITY_STANDARD_SNIPE == 50
PRIORITY_MARKET_PRICE == 45
PRIORITY_TIME_DECAY == 45
PRIORITY_PREDICTIVE_TIMING == 35

----------------------------------------------------------------------------
(* PriceCalculator *)

\* Date.getTime() and Date.now() count milliseconds
MsPerSecond == 1000

\* a decay that keeps extrapolating after the duration has passed
PriceAtElapsedNoFloor(params, timeElapsedSeconds) ==
  IF timeElapsedSeconds <= 0 THEN params.startPrice
  ELSE params.startPrice
         - TruncDiv((params.startPrice - params.minPrice) * timeElapsedSeconds,
                    params.auctionDuration)

\* a decay whose division rounds up
PriceAtElapsedRoundUp(params, timeElapsedSeconds) ==
  IF timeElapsedSeconds <= 0 THEN params.startPrice
  ELSE IF timeElapsedSeconds >= params.auctionDuration THEN params.minPrice
  ELSE params.startPrice
         + (((params.minPrice - params.startPrice) * timeElapsedSeconds)
              \div params.auctionDuration)

\* calculateCurrentPrice from the whole elapsed seconds on
PriceAtElapsed(params, timeElapsedSeconds) ==
  LET priceRange == params.startPrice - params.minPrice
      priceDecay == TruncDiv(priceRange * timeElapsedSeconds, params.auctionDuration)
      currentPrice == params.startPrice - priceDecay
  IN IF timeElapsedSeconds <= 0 THEN params.startPrice
     ELSE IF timeElapsedSeconds >= params.auctionDuration THEN params.minPrice
     ELSE IF currentPrice < params.minPrice THEN params.minPrice
     ELSE IF currentPrice > params.startPrice THEN params.startPrice
     ELSE currentPrice

\* calculateCurrentPrice(params) at clock reading t, for a clock and a start
\* time that are whole seconds
calculateCurrentPrice(params, t) == PriceAtElapsed(params, t - params.auctionStartTime)

\* calculateCurrentPrice(params) with Date.now() = nowMs and the start time in
\* milliseconds: timeElapsedSeconds = Math.floor(timeElapsedMs / 1000)
calculateCurrentPriceMs(params, nowMs) ==
  PriceAtElapsed(params, (nowMs - params.auctionStartTime) \div MsPerSecond)

\* timeUntilPrice(params, targetPrice) with Date.now() = nowMs
timeUntilPrice(params, targetPrice, nowMs) ==
  IF targetPrice >= params.startPrice THEN 0
  ELSE IF targetPrice <= params.minPrice
  THEN LET auctionEndMs == params.auctionStartTime + params.auctionDuration * MsPerSecond
       IN Max(0, auctionEndMs - nowMs) \div MsPerSecond
  ELSE LET priceRange == params.startPrice - params.minPrice
           targetDrop == params.startPrice - targetPrice
           timeForTarget == TruncDiv(targetDrop * params.auctionDuration, priceRange)
           targetTimeMs == params.auctionStartTime + timeForTarget * MsPerSecond
       IN Max(0, targetTimeMs - nowMs) \div MsPerSecond

----------------------------------------------------------------------------
(* ProfitCalculator *)

\* accrual without the expected auction time
calculateBGTRewardsNoWindow(rate, leaderTimestamp, currentTimestamp, expected) ==
  [present |-> TRUE, bgtPerSecond |-> rate,
   totalAccumulated |-> rate * (currentTimestamp - leaderTimestamp),
   timeElapsed |-> currentTimestamp - leaderTimestamp]

\* accrual that counts the expected auction time only while it lasts
calculateBGTRewardsWindowInDecay(rate, leaderTimestamp, currentTimestamp, expected) ==
  LET timeElapsed == currentTimestamp - leaderTimestamp
  IN [present |-> TRUE, bgtPerSecond |-> rate,
      totalAccumulated |->
        IF timeElapsed <= expected THEN rate * (timeElapsed + timeElapsed)
        ELSE rate * timeElapsed,
      timeElapsed |-> timeElapsed]

\* calculateBGTRewards(bgtPerSecond, leaderTimestamp, currentTimestamp) under
\* config.strategy.expectedAuctionDuration = expected; timestamps in seconds
calculateBGTRewardsWith(rate, leaderTimestamp, currentTimestamp, expected) ==
  LET timeElapsed == currentTimestamp - leaderTimestamp
      auctionTime == Min(timeElapsed, expected)
      totalSeconds == timeElapsed + auctionTime
  IN [present |-> TRUE, bgtPerSecond |-> rate,
      totalAccumulated |-> rate * totalSeconds,
      timeElapsed |-> timeElapsed]

calculateBGTRewards(rate, leaderTimestamp, currentTimestamp) ==
  calculateBGTRewardsWith(rate, leaderTimestamp, currentTimestamp,
                          ExpectedAuctionDuration)

\* the percentages p (in basis points) below 100% for which the double
\* (1 + p / 100) * BASIS_POINTS lies just under the integer 10000 + 100 p
FloorLosesOne ==
  {1300, 3600, 3800, 5700, 5900, 6100, 6300}

\* BigInt(Math.floor((1 + targetProfitPercentage / 100) * BASIS_POINTS))
RequiredMultiplier(targetBp) ==
  IF targetBp \in FloorLosesOne THEN BASIS_POINTS + targetBp - 1
  ELSE BASIS_POINTS + targetBp

\* timeToProfit(currentPrice, bgtPerSecond, targetProfitPercentage) under
\* config.strategy.expectedAuctionDuration
timeToProfitWith(currentPrice, rate, targetBp, expectedAuctionDuration) ==
  IF rate = 0 THEN Infinity
  ELSE IF currentPrice = 0 THEN 0
  ELSE LET requiredMultiplier == RequiredMultiplier(targetBp)
           requiredBGT == TruncDiv(currentPrice * requiredMultiplier, BASIS_POINTS)
           timeRequired == TruncDiv(requiredBGT, rate)
       IN Max(0, timeRequired - expectedAuctionDuration)

timeToProfit(currentPrice, rate, targetBp) ==
  timeToProfitWith(currentPrice, rate, targetBp, ExpectedAuctionDuration)

\* metrics whose divisions round towards minus infinity
calculateProfitMetricsFloorDiv(currentPrice, bgtRewards) ==
  LET netProfit == bgtRewards.totalAccumulated - currentPrice
  IN [returnPercentage |->
        IF currentPrice > 0
        THEN (bgtRewards.totalAccumulated * BASIS_POINTS) \div currentPrice
        ELSE 0,
      profitPercentage |->
        IF currentPrice > 0 THEN (netProfit * BASIS_POINTS) \div currentPrice
        ELSE 0,
      netProfit |-> netProfit,
      breakEvenTime |->
        IF bgtRewards.bgtPerSecond > 0
        THEN currentPrice \div bgtRewards.bgtPerSecond
        ELSE Infinity,
      timeToProfit |->
        [th \in ProfitThresholds |->
           timeToProfit(currentPrice, bgtRewards.bgtPerSecond, th)]]

\* calculateProfitMetrics(currentPrice, bgtRewards); the percentages are kept
\* in basis points, the BigInt quotient before the division by 100
calculateProfitMetrics(currentPrice, bgtRewards) ==
  LET netProfit == bgtRewards.totalAccumulated - currentPrice
  IN [returnPercentage |->
        IF currentPrice > 0
        THEN TruncDiv(bgtRewards.totalAccumulated * BASIS_POINTS, currentPrice)
        ELSE 0,
      profitPercentage |->
        IF currentPrice > 0 THEN TruncDiv(netProfit * BASIS_POINTS, currentPrice)
        ELSE 0,
      netProfit |-> netProfit,
      breakEvenTime |->
        IF bgtRewards.bgtPerSecond > 0
        THEN TruncDiv(currentPrice, bgtRewards.bgtPerSecond)
        ELSE Infinity,
      timeToProfit |->
        [th \in ProfitThresholds |->
           timeToProfit(currentPrice, bgtRewards.bgtPerSecond, th)]]

\* profit.timeToProfit[key]: undefined for a key that was not pre-calculated
TimeToProfitAt(profit, key) ==
  IF key \in DOMAIN profit.timeToProfit THEN profit.timeToProfit[key] ELSE Undefined

----------------------------------------------------------------------------
(* validateRuleContext *)

\* TRUE when validateRuleContext(context) throws
validateRuleContextThrows(ctx) ==
  \/ ~isValidAddress(ctx.auction.currentLeader)
  \/ ctx.auction.currentPrice < 0
  \/ ctx.auction.leaderAmount < 0
  \/ ctx.auction.leaderTimestamp < 0
  \/ ctx.bgtRewards.bgtPerSecond < 0
  \/ ctx.bgtRewards.totalAccumulated < 0
  \/ ctx.profit.breakEvenTime = Infinity
  \/ ~isValidAddress(ctx.walletAddress)

----------------------------------------------------------------------------
(* The rules registered by createDecisionEngine.  Each operator gives the  *)
(* `decision` of the rule's evaluation (NoDecision for decision: null) or  *)
(* Thrown.                                                                 *)

ZeroAddress == "0x00"

CeilDiv(a, b) == -((-a) \div b)

\* constructor defaults of AuctionTimeDecayRule
DecayExpectedDuration == 30
EarlyPhaseSeconds == 10
MidPhaseSeconds == 20
LatePhaseThreshold == -2000
MidPhaseThreshold == 0
\* constructor defaults of PredictiveTimingRule
TargetProfitThreshold == 200
OpportunityWindowSeconds == 5
MinAcceptableProfit == -1000
RiskAdjustedTarget == 160
StallSeconds == 30

\* SafetyRule.evaluate(context) with context.config.maxYeetAmount (in wei)
\* and context.config.maxAuctionFactor; priceProgress divides by the maximum
\* before the price is compared with it
SafetyRuleWith(ctx, maxYeetAmountWei, maxAuctionFactor) ==
  IF validateRuleContextThrows(ctx) THEN Thrown
  ELSE IF maxYeetAmountWei = 0 THEN Thrown   \* BigInt division by zero
  ELSE IF ctx.auction.currentPrice > maxYeetAmountWei
       THEN Decision(FALSE, PRIORITY_SAFETY, "Safety", "maxYeetAmount")
  ELSE IF ctx.auction.auctionMaxFactor > maxAuctionFactor
       THEN Decision(FALSE, PRIORITY_SAFETY, "Safety", "auctionMaxFactor")
  ELSE NoDecision

SafetyRule(ctx) == SafetyRuleWith(ctx, MaxYeetAmountWei, CfgMaxAuctionFactor)

\* a blacklist rule whose threshold comparison is strict
BlacklistRuleStrict(ctx) ==
  IF validateRuleContextThrows(ctx) THEN Thrown
  ELSE IF toLowerCase(ctx.auction.currentLeader) \notin ctx.config.blacklistedAddresses
       THEN NoDecision
  ELSE IF ctx.profit.profitPercentage > ctx.config.blacklistProfitThreshold
       THEN Decision(TRUE, PRIORITY_BLACKLIST, "Blacklist", "blacklisted")
  ELSE NoDecision

BlacklistRule(ctx) ==
  IF validateRuleContextThrows(ctx) THEN Thrown
  ELSE IF toLowerCase(ctx.auction.currentLeader) \notin ctx.config.blacklistedAddresses
       THEN NoDecision
  ELSE IF ctx.profit.profitPercentage >= ctx.config.blacklistProfitThreshold
       THEN Decision(TRUE, PRIORITY_BLACKLIST, "Blacklist", "blacklisted")
  ELSE NoDecision

SelfProtectionRule(ctx) ==
  LET timeToTarget == TimeToProfitAt(ctx.profit, ctx.config.selfProfitThreshold)
  IN IF validateRuleContextThrows(ctx) THEN Thrown
     ELSE IF toLowerCase(ctx.auction.currentLeader) \notin ctx.config.ourWallets
          THEN NoDecision
     ELSE IF \/ ctx.profit.profitPercentage >= ctx.config.selfProfitThreshold
             \/ (timeToTarget # Undefined /\ timeToTarget < ctx.config.snipeBufferSeconds)
          THEN Decision(TRUE, PRIORITY_SELF_PROTECTION, "SelfProtection", "secure")
     ELSE NoDecision

\* new BGTEqualsCurrentPriceRule(bgtEqualsPriceBuffer).evaluate(context), the
\* buffer in basis points; the multiplier is
\* BigInt(Math.floor((1 + profitBuffer / 100) * 10000))
BGTEqualsCurrentPriceRule(ctx, bgtEqualsPriceBuffer) ==
  LET profitBuffer == Max(0, Min(BASIS_POINTS, bgtEqualsPriceBuffer))
      requiredBGT == TruncDiv(ctx.auction.currentPrice * RequiredMultiplier(profitBuffer),
                              BASIS_POINTS)
  IN IF validateRuleContextThrows(ctx) THEN Thrown
     ELSE IF ctx.bgtRewards.totalAccumulated >= requiredBGT
          THEN Decision(TRUE, PRIORITY_BGT_EQUALS_PRICE, "BGTEqualsCurrentPrice", "bgt>=price")
     ELSE NoDecision

AuctionTimeDecayRule(ctx) ==
  LET auctionAge == ctx.now - ctx.auction.auctionStartTime
      early == auctionAge < EarlyPhaseSeconds
      profitThreshold == IF early THEN BASIS_POINTS
                         ELSE IF auctionAge < MidPhaseSeconds THEN MidPhaseThreshold
                         ELSE LatePhaseThreshold
  IN IF validateRuleContextThrows(ctx) THEN Thrown
     ELSE IF ~ctx.auction.isAuctionPhase \/ ctx.auction.auctionStartTime = Undefined
          THEN NoDecision
     ELSE IF ctx.profit.profitPercentage >= profitThreshold /\ ~early
          THEN Decision(TRUE, PRIORITY_TIME_DECAY, "AuctionTimeDecay", "urgency")
     ELSE NoDecision

StandardSnipeRule(ctx) ==
  LET timeToTarget == TimeToProfitAt(ctx.profit, ctx.config.othersProfitThreshold)
      leader == ctx.auction.currentLeader
  IN IF validateRuleContextThrows(ctx) THEN Thrown
     ELSE IF leader = "" \/ leader = ZeroAddress THEN NoDecision
     ELSE IF \/ toLowerCase(leader) \in ctx.config.ourWallets
             \/ toLowerCase(leader) \in ctx.config.blacklistedAddresses
          THEN NoDecision
     ELSE IF \/ ctx.profit.profitPercentage >= ctx.config.othersProfitThreshold
             \/ (timeToTarget # Undefined /\ timeToTarget < ctx.config.snipeBufferSeconds)
          THEN Decision(TRUE, PRIORITY_STANDARD_SNIPE, "StandardSnipe", "snipe")
     ELSE NoDecision

PredictiveTimingRule(ctx) ==
  LET p == ctx.profit.profitPercentage
      timeToTarget == TimeToProfitAt(ctx.profit, TargetProfitThreshold)
      timeToNextPercent == TimeToProfitAt(ctx.profit, (CeilDiv(p, 100) + 1) * 100)
      stalling == /\ (timeToTarget = Undefined \/ timeToTarget = Infinity)
                  /\ p > 0
                  /\ (timeToNextPercent = Undefined \/ timeToNextPercent > StallSeconds)
      isWithinWindow == timeToTarget # Undefined /\ timeToTarget <= OpportunityWindowSeconds
  IN IF validateRuleContextThrows(ctx) THEN Thrown
     ELSE IF p < MinAcceptableProfit THEN NoDecision
     ELSE IF stalling
          THEN Decision(TRUE, PRIORITY_PREDICTIVE_TIMING, "PredictiveTiming", "stalling")
     ELSE IF (isWithinWindow /\ p > 0) \/ p >= RiskAdjustedTarget
          THEN Decision(TRUE, PRIORITY_PREDICTIVE_TIMING, "PredictiveTiming", "timing")
     ELSE NoDecision

MarketPriceRule(ctx) ==
  LET discountThreshold == Max(0, Min(BASIS_POINTS, MarketPriceDiscountThreshold))
      targetPrice == TruncDiv(ctx.lastPaidPrice * (BASIS_POINTS - discountThreshold),
                              BASIS_POINTS)
  IN IF validateRuleContextThrows(ctx) THEN Thrown
     ELSE IF ctx.lastPaidPrice = Undefined \/ ctx.lastPaidPrice = 0 THEN NoDecision
     ELSE IF ctx.auction.currentPrice <= targetPrice
          THEN Decision(TRUE, PRIORITY_MARKET_PRICE, "MarketPrice", "discount")
     ELSE NoDecision

\* thoughts.progress of MarketPriceRule.evaluate, rounded down to a whole
\* number (the sign and the comparison with 100 are those of the JS number)
MarketPriceProgress(ctx) ==
  LET discountThreshold == Max(0, Min(BASIS_POINTS, MarketPriceDiscountThreshold))
      discountPercent ==
        TruncDiv((ctx.lastPaidPrice - ctx.auction.currentPrice) * BASIS_POINTS,
                 ctx.lastPaidPrice)
  IN IF ctx.lastPaidPrice = Undefined \/ ctx.lastPaidPrice = 0 THEN 0
     ELSE IF MarketPriceRule(ctx).kind = "decision" THEN 100
     ELSE IF discountThreshold = 0 THEN -Infinity
     ELSE Min(100, (discountPercent * 100) \div discountThreshold)

\* thoughts.progress of AuctionTimeDecayRule.evaluate, rounded down to a whole
\* number
AuctionTimeDecayProgress(ctx) ==
  LET auctionAge == ctx.now - ctx.auction.auctionStartTime
  IN IF ~ctx.auction.isAuctionPhase \/ ctx.auction.auctionStartTime = Undefined
     THEN 0
     ELSE IF AuctionTimeDecayRule(ctx).kind = "decision" THEN 100
     ELSE Min(100, (auctionAge * 100) \div DecayExpectedDuration)

\* createDecisionEngine: the registration order
createDecisionEngine ==
  <<"Safety", "Blacklist", "SelfProtection", "BGTEqualsCurrentPrice",
    "AuctionTimeDecay", "StandardSnipe", "PredictiveTiming", "MarketPrice">>

\* rule.evaluate(context) of the rule registered under `name`
RuleEvaluate(name, ctx) ==
  CASE name = "Safety" -> SafetyRule(ctx)
    [] name = "Blacklist" -> BlacklistRule(ctx)
    [] name = "SelfProtection" -> SelfProtectionRule(ctx)
    [] name = "BGTEqualsCurrentPrice" ->
         BGTEqualsCurrentPriceRule(ctx, BgtEqualsPriceBuffer)
    [] name = "AuctionTimeDecay" -> AuctionTimeDecayRule(ctx)
    [] name = "StandardSnipe" -> StandardSnipeRule(ctx)
    [] name = "PredictiveTiming" -> PredictiveTimingRule(ctx)
    [] name = "MarketPrice" -> MarketPriceRule(ctx)

\* decisionEngine.evaluate(ruleContext) with the registered rules
EvaluateContext(names, ctx) ==
  EngineEvaluate(names, [i \in 1..Len(names) |-> RuleEvaluate(names[i], ctx)])

----------------------------------------------------------------------------
(* StateManager *)

NoAuction ==
  [present |-> FALSE, currentPrice |-> 0, currentLeader |-> "", leaderAmount |-> 0,
   leaderTimestamp |-> 0, isAuctionPhase |-> FALSE, auctionMaxFactor |-> 0,
   lastPaidPrice |-> Undefined, auctionStartTime |-> Undefined]

NoParams ==
  [present |-> FALSE, startPrice |-> 0, minPrice |-> 0, auctionDuration |-> 0,
   auctionStartTime |-> 0]

\* initializeState
NoStats == [totalYeets |-> 0, successfulYeets |-> 0, failedYeets |-> 0, totalSpent |-> 0]

\* getRealtimePrice: Undefined stands for null
getRealtimePrice(a, params, t) ==
  IF ~params.present \/ ~a.present \/ ~a.isAuctionPhase THEN Undefined
  ELSE calculateCurrentPrice(params, t)

\* getRealtimeAuction (a record with present = FALSE stands for null)
getRealtimeAuction(a, params, t) ==
  IF ~a.present THEN a
  ELSE IF getRealtimePrice(a, params, t) # Undefined
       THEN [a EXCEPT !.currentPrice = getRealtimePrice(a, params, t)]
       ELSE a

\* recordYeetAttempt(success, amount)
recordYeetAttempt(st, success, amount) ==
  IF success
  THEN [st EXCEPT !.totalYeets = @ + 1, !.successfulYeets = @ + 1,
                  !.totalSpent = @ + amount]
  ELSE [st EXCEPT !.totalYeets = @ + 1, !.failedYeets = @ + 1]

NoBgt == [present |-> FALSE, bgtPerSecond |-> 0, totalAccumulated |-> 0, timeElapsed |-> 0]

\* calculateCurrentBgt (a record with present = FALSE stands for null)
calculateCurrentBgt(a, rate, t) ==
  IF ~a.present \/ a.currentLeader = "" THEN NoBgt
  ELSE [present |-> TRUE, bgtPerSecond |-> rate,
        totalAccumulated |-> rate * (t - a.leaderTimestamp),
        timeElapsed |-> t - a.leaderTimestamp]

\* isOurWallet(address, ourWallets)
isOurWallet(address, ourWallets) == toLowerCase(address) \in ourWallets

----------------------------------------------------------------------------
(* BotRunner: the tick and the serialized execution *)

\* config.safety.dryRun
CfgDryRun == FALSE

\* what blockchain.getBalance() may resolve to
Balances == {0, 8}

\* the config of the RuleContext literal (percentages in basis points)
CfgRules ==
  [othersProfitThreshold |-> OthersProfitThreshold,
   selfProfitThreshold |-> SelfProfitThreshold,
   blacklistProfitThreshold |-> BlacklistProfitThreshold,
   snipeBufferSeconds |-> SnipeBufferSeconds,
   blacklistedAddresses |-> CfgBlacklistedAddresses,
   ourWallets |-> CfgOurWallets]

\* the RuleContext literal of checkForOpportunity
RuleContext(rt, bgt, ours, lastPaid, t) ==
  [auction |-> rt,
   bgtRewards |-> bgt,
   profit |-> calculateProfitMetrics(
                IF rt.leaderAmount # 0 THEN rt.leaderAmount ELSE rt.currentPrice, bgt),
   walletAddress |-> OurAddress,
   isOurWallet |-> ours,
   config |-> CfgRules,
   lastPaidPrice |-> lastPaid,
   now |-> t]

\* an auction state the core may assume: identities well-formed, amounts
\* non-negative, lead start not after the clock reading
WellFormedState(a, rate, t) ==
  /\ a.present
  /\ isValidAddress(a.currentLeader)
  /\ a.currentPrice >= 0 /\ a.leaderAmount >= 0
  /\ a.leaderTimestamp >= 0 /\ a.leaderTimestamp <= t
  /\ rate >= 0

\* observations of the step just taken: the tick (its outcome, whether the
\* state it read was well-formed, and the bgtRewards of the context it built)
\* and the serializer step
NoTick == [kind |-> "none", wellFormed |-> FALSE, bgtRewards |-> NoBgt]
NoExec == [op |-> "none", lockId |-> 0, outcome |-> "", value |-> 0]
Exec(op, r, outcome) ==
  [op |-> op, lockId |-> r.lockId, outcome |-> outcome, value |-> r.yeetAmount]

\* a pending callback of the yeetMutex chain; settled callbacks leave reqs.
\* yeetAmount and inDecay are what executeYeetInternal read at its start:
\* the real-time price, and whether the state was in the decay phase and out
\* of cooldown
NewRequest(lockId, src) ==
  [lockId |-> lockId, st |-> "queued", yeetAmount |-> 0, src |-> src, inDecay |-> FALSE]

InFlight == {"balance", "write", "receipt"}

\* the sequence s without its element at index i
RemoveAt(s, i) == [j \in 1..(Len(s) - 1) |-> IF j < i THEN s[j] ELSE s[j + 1]]

\* executeYeet(decision): const lockId = ++this.yeetLockCount; the callback
\* is chained on yeetMutex
executeYeet(src) ==
  /\ yeetLockCount < MaxRequests
  /\ yeetLockCount' = yeetLockCount + 1
  /\ reqs' = Append(reqs, NewRequest(yeetLockCount + 1, src))

\* yeetMutex.then(callback): the callback at position i of the chain runs once
\* the promise it was chained on has resolved, i.e. every callback chained
\* before it has returned
PredecessorSettledAlways(i) == TRUE
PredecessorSettled(i) == i = 1

\* stop() is at `await this.yeetMutex` and the promise it awaits (the chain
\* as it was when stop() was called) has resolved
StopReady ==
  /\ lifecycle.stopPc = "waiting"
  /\ \A i \in DOMAIN reqs : reqs[i].lockId > lifecycle.stopToken

\* a promise reaction is ready to run (a chained callback, or the
\* continuation of stop()): promise reactions run before any timer, I/O
\* completion or request handler gets its turn
TurnPending ==
  \/ \E i \in DOMAIN reqs : reqs[i].st = "queued" /\ PredecessorSettled(i)
  \/ StopReady

\* if (lockId !== this.yeetLockCount)
IsSupersededNever(lockId, count) == FALSE
IsSuperseded(lockId, count) == lockId # count

\* the chained callback of request i, up to the first await of
\* executeYeetInternal (getBalance)
MutexTurn(i) ==
  /\ reqs[i].st = "queued"
  /\ PredecessorSettled(i)
  /\ IF IsSuperseded(reqs[i].lockId, yeetLockCount)
     THEN /\ reqs' = RemoveAt(reqs, i)
          /\ lastExec' = Exec("turn", reqs[i], "superseded")
          /\ UNCHANGED stats
     ELSE LET rt == getRealtimeAuction(auction, auctionParams, now)
          IN IF ~rt.present
             THEN \* throw new Error('No auction state available'), caught
                  /\ reqs' = RemoveAt(reqs, i)
                  /\ lastExec' = Exec("turn", reqs[i], "threw")
                  /\ stats' = recordYeetAttempt(stats, FALSE, 0)
             ELSE /\ reqs' = [reqs EXCEPT ![i].st = "balance",
                                          ![i].yeetAmount = rt.currentPrice,
                                          ![i].inDecay = rt.isAuctionPhase /\ ~isInCooldown]
                  /\ lastExec' = Exec("turn", reqs'[i], "started")
                  /\ UNCHANGED stats
  /\ lastTick' = NoTick
  /\ UNCHANGED <<calc, manual, lifecycle,
                 engineVars, now, auction, auctionParams, bgtPerSecond, isInCooldown,
                 botPc, isRunning, checkInterval, yeetLockCount, eventVars>>

\* executeYeetInternal resumes after await getBalance()
BalanceReturns(i, ok, balance) ==
  /\ ~TurnPending
  /\ reqs[i].st = "balance"
  /\ IF ~ok
     THEN /\ reqs' = RemoveAt(reqs, i)
          /\ lastExec' = Exec("balance", reqs[i], "threw")
          /\ stats' = recordYeetAttempt(stats, FALSE, 0)
     ELSE IF balance < reqs[i].yeetAmount
     THEN /\ reqs' = RemoveAt(reqs, i)
          /\ lastExec' = Exec("balance", reqs[i], "insufficient")
          /\ UNCHANGED stats
     ELSE IF CfgDryRun
     THEN /\ reqs' = RemoveAt(reqs, i)
          /\ lastExec' = Exec("balance", reqs[i], "dryrun")
          /\ stats' = recordYeetAttempt(stats, TRUE, reqs[i].yeetAmount)
     ELSE \* writeContract({ ..., value: yeetAmount })
          /\ reqs' = [reqs EXCEPT ![i].st = "write"]
          /\ lastExec' = Exec("balance", reqs[i], "writeContract")
          /\ UNCHANGED stats
  /\ lastTick' = NoTick
  /\ UNCHANGED <<calc, manual, lifecycle,
                 engineVars, now, auction, auctionParams, bgtPerSecond, isInCooldown,
                 botPc, isRunning, checkInterval, yeetLockCount, eventVars>>

\* executeYeetInternal resumes after await writeContract(...)
WriteReturns(i, ok) ==
  /\ ~TurnPending
  /\ reqs[i].st = "write"
  /\ IF ok
     THEN /\ reqs' = [reqs EXCEPT ![i].st = "receipt"]
          /\ lastExec' = Exec("write", reqs[i], "sent")
          /\ UNCHANGED stats
     ELSE /\ reqs' = RemoveAt(reqs, i)
          /\ lastExec' = Exec("write", reqs[i], "threw")
          /\ stats' = recordYeetAttempt(stats, FALSE, 0)
  /\ lastTick' = NoTick
  /\ UNCHANGED <<calc, manual, lifecycle,
                 engineVars, now, auction, auctionParams, bgtPerSecond, isInCooldown,
                 botPc, isRunning, checkInterval, yeetLockCount, eventVars>>

\* executeYeetInternal resumes after await waitForTransactionReceipt(hash):
\* "success", "reverted", or the wait itself throws
ReceiptReturns(i, result) ==
  /\ ~TurnPending
  /\ reqs[i].st = "receipt"
  /\ reqs' = RemoveAt(reqs, i)
  /\ lastExec' = Exec("receipt", reqs[i], result)
  /\ stats' = IF result = "success"
              THEN recordYeetAttempt(stats, TRUE, reqs[i].yeetAmount)
              ELSE recordYeetAttempt(stats, FALSE, 0)
  /\ lastTick' = NoTick
  /\ UNCHANGED <<calc, manual, lifecycle,
                 engineVars, now, auction, auctionParams, bgtPerSecond, isInCooldown,
                 botPc, isRunning, checkInterval, yeetLockCount, eventVars>>

\* a checkForOpportunity whose display-only evaluation acts
checkForOpportunityDisplayActs(a, params) ==
  /\ lastTick' = [kind |-> "display", wellFormed |-> FALSE, bgtRewards |-> NoBgt]
  /\ UNCHANGED lastEvaluations
  /\ executeYeet("tick")

\* checkForOpportunity, up to its await of executeYeet, reading the stored
\* auction a and parameters params: what it does to the engine, the lock
\* counter, the chain of callbacks and the observation
checkForOpportunity(a, params) ==
  LET rt == getRealtimeAuction(a, params, now)
      bgt == calculateCurrentBgt(a, bgtPerSecond, now)
      wf == WellFormedState(a, bgtPerSecond, now)
      displayBgt == IF bgt.present THEN bgt ELSE [NoBgt EXCEPT !.present = TRUE]
      displayRes == EvaluateContext(rules,
                      RuleContext(rt, displayBgt, FALSE, a.lastPaidPrice, now))
      res == EvaluateContext(rules,
               RuleContext(rt, bgt,
                           isOurWallet(rt.currentLeader, CfgOurWallets),
                           rt.lastPaidPrice, now))
  IN IF ~rt.present
     THEN /\ lastTick' = [kind |-> "nostate", wellFormed |-> wf, bgtRewards |-> NoBgt]
          /\ UNCHANGED <<lastEvaluations, yeetLockCount, reqs>>
     ELSE IF ~rt.isAuctionPhase \/ isInCooldown
     THEN \* evaluate for display only
          /\ lastEvaluations' = StoreEvaluations(displayRes, lastEvaluations)
          /\ lastTick' = [kind |-> IF displayRes.threw THEN "threw" ELSE "display",
                          wellFormed |-> wf, bgtRewards |-> displayBgt]
          /\ UNCHANGED <<yeetLockCount, reqs>>
     ELSE IF ~bgt.present
     THEN /\ lastTick' = [kind |-> "nobgt", wellFormed |-> wf, bgtRewards |-> NoBgt]
          /\ UNCHANGED <<lastEvaluations, yeetLockCount, reqs>>
     ELSE /\ lastEvaluations' = StoreEvaluations(res, lastEvaluations)
          /\ IF res.threw
             THEN /\ lastTick' = [kind |-> "threw", wellFormed |-> wf, bgtRewards |-> bgt]
                  /\ UNCHANGED <<yeetLockCount, reqs>>
             ELSE IF ~res.decision.shouldYeet
             THEN /\ lastTick' = [kind |-> "blocked", wellFormed |-> wf, bgtRewards |-> bgt]
                  /\ UNCHANGED <<yeetLockCount, reqs>>
             ELSE /\ lastTick' = [kind |-> "enqueued", wellFormed |-> wf, bgtRewards |-> bgt]
                  /\ executeYeet("tick")

\* the setInterval callback of startMonitoring
Tick ==
  /\ ~TurnPending
  /\ checkInterval /\ isRunning
  /\ checkForOpportunity(auction, auctionParams)
  /\ lastExec' = NoExec
  /\ UNCHANGED <<calc, manual, lifecycle,
                 rules, engCall, now, stateVars, botPc, isRunning, checkInterval,
                 eventVars>>

\* forceYeet(), when it gets as far as executeYeet
forceYeet ==
  /\ ~TurnPending
  /\ getRealtimeAuction(auction, auctionParams, now).present
  /\ getRealtimeAuction(auction, auctionParams, now).isAuctionPhase
  /\ executeYeet("force")
  /\ lastTick' = NoTick /\ lastExec' = NoExec
  /\ UNCHANGED <<calc, manual, lifecycle,
                 engineVars, now, stateVars, botPc, isRunning, checkInterval,
                 eventVars>>

\* the clock
Advance ==
  /\ ~TurnPending
  /\ now < MaxNow
  /\ now' = now + 1
  /\ lastTick' = NoTick /\ lastExec' = NoExec
  /\ UNCHANGED <<calc, manual, lifecycle, engineVars, stateVars, botCore, eventVars>>

\* startMonitoring(), with the stored auction a and parameters params
startMonitoring(a, params) ==
  IF checkInterval
  THEN /\ lastTick' = NoTick
       /\ UNCHANGED <<checkInterval, lastEvaluations, yeetLockCount, reqs>>
  ELSE /\ checkInterval' = TRUE
       /\ checkForOpportunity(a, params)

----------------------------------------------------------------------------
(* The chain, as the bot reads it *)

\* getPricingInfo: startPrice, minPrice, auctionDuration of the running game
ChainStartPrice == 6
ChainMinPrice == 2
ChainAuctionDuration == 2
\* prices getPricingInfo / getCurrentYeetPrice may report
ChainPrices == {4, 6}
\* getPricingInfo as fetchCurrentState reads it: <<inCooldown, currentPrice>>,
\* in cooldown at the start price or in the decay phase below it
ChainPricing == {<<TRUE, ChainStartPrice>>, <<FALSE, 4>>}
\* lastYeeted as the multicall reports it; "" when that call failed
ChainLeaders == {OtherAddress, ""}
\* auctionTimeElapsed reported with a price
ChainAuctionTimeElapsed(price) == IF price < ChainStartPrice THEN 1 ELSE 0
\* expectedBGTPerSlot / cooldownDuration
ChainRates == {0, 2}
\* msg.value of the commits of other players
EventValues == {2, 4}
\* getAuctionMaxFactor, basis points
ChainAuctionMaxFactor == 14000

ChainParams(startTime) ==
  [present |-> TRUE, startPrice |-> ChainStartPrice, minPrice |-> ChainMinPrice,
   auctionDuration |-> ChainAuctionDuration, auctionStartTime |-> startTime]

----------------------------------------------------------------------------
(* EventManager *)

\* no calculator or rule has been called on its own
NoCalc == [op |-> "none"]

NoPhaseCheck == [pc |-> "idle", isInCooldown |-> FALSE, auction |-> NoAuction]

\* the bot was not paused and stop() has not been called
NoLifecycle == [paused |-> FALSE, stopPc |-> "none", stopToken |-> 0]

\* no onForceYeet callback of the terminal dashboard is in progress
NoManual == [pc |-> "idle", yeetAmount |-> 0, calls |-> 0]

InitRest ==
  /\ now = 0
  /\ auction = NoAuction
  /\ auctionParams = NoParams
  /\ bgtPerSecond = 0
  /\ isInCooldown = FALSE
  /\ stats = NoStats
  /\ botPc = "new"
  /\ isRunning = FALSE
  /\ checkInterval = FALSE
  /\ yeetLockCount = 0
  /\ reqs = <<>>
  /\ lastExec = NoExec
  /\ lastTick = NoTick
  /\ emitted = <<>>
  /\ handlers = <<>>
  /\ processedEvents = {}
  /\ applied = [e \in 1..MaxEvents |-> 0]
  /\ reported = [e \in 1..MaxEvents |-> 0]
  /\ phaseCheck = NoPhaseCheck
  /\ manual = NoManual
  /\ lifecycle = NoLifecycle
  /\ calc = NoCalc

\* fetchCurrentState, from the multicall result to updateAuction
fetchCurrentState(leader, rate, inCooldown, price) ==
  LET isAuctionPhase == ~inCooldown /\ price < ChainStartPrice
      startTime == now - ChainAuctionTimeElapsed(price)
  IN /\ bgtPerSecond' = rate
     /\ auctionParams' = IF isAuctionPhase THEN ChainParams(startTime) ELSE auctionParams
     /\ auction' = [present |-> TRUE,
                    currentPrice |-> price,
                    currentLeader |-> leader,
                    leaderAmount |-> ChainStartPrice,
                    leaderTimestamp |-> 0,
                    isAuctionPhase |-> isAuctionPhase,
                    auctionMaxFactor |-> ChainAuctionMaxFactor,
                    lastPaidPrice |-> ChainStartPrice,
                    auctionStartTime |-> IF isAuctionPhase THEN startTime ELSE Undefined]

\* BotRunner.start() up to the end of eventManager.start()
StartFetch ==
  /\ botPc = "new"
  /\ \E leader \in ChainLeaders, rate \in ChainRates, pricing \in ChainPricing :
       fetchCurrentState(leader, rate, pricing[1], pricing[2])
  /\ botPc' = "fetched"
  /\ lastTick' = NoTick /\ lastExec' = NoExec
  /\ UNCHANGED <<calc, manual, lifecycle,
                 engineVars, now, isInCooldown, stats, isRunning, checkInterval,
                 yeetLockCount, reqs, eventVars>>

\* the event manager has started: watchers are set up, the state is fetched
Watching == botPc \in {"fetched", "running"}

\* EventManager.refreshState(): fetchCurrentState() again
refreshState ==
  /\ ~TurnPending
  /\ Watching
  /\ \E leader \in ChainLeaders, rate \in ChainRates, pricing \in ChainPricing :
       fetchCurrentState(leader, rate, pricing[1], pricing[2])
  /\ lastTick' = NoTick /\ lastExec' = NoExec
  /\ UNCHANGED <<calc, manual, lifecycle, engineVars, now, isInCooldown, stats, botCore, eventVars>>

\* BotRunner.start(): this.isRunning = true; this.startMonitoring()
StartRunning ==
  /\ ~TurnPending
  /\ botPc = "fetched"
  /\ botPc' = "running"
  /\ isRunning' = TRUE
  /\ startMonitoring(auction, auctionParams)
  /\ lastExec' = NoExec
  /\ UNCHANGED <<calc, manual, lifecycle, rules, engCall, now, stateVars, eventVars>>

\* a commit that did not go through this bot's serializer is included while
\* the event watcher is set up: the contract emits its YeetEvent
EmitYeetEvent(yeeter, value) ==
  /\ ~TurnPending
  /\ Watching
  /\ Len(emitted) < MaxEvents
  /\ emitted' = Append(emitted, [yeeter |-> yeeter, value |-> value, timestamp |-> now,
                                 tx |-> 0])
  /\ lastTick' = NoTick /\ lastExec' = NoExec
  /\ UNCHANGED <<calc, manual, lifecycle,
                 engineVars, now, stateVars, botCore, handlers, processedEvents,
                 applied, reported, phaseCheck>>

\* EVENT_RETENTION_MS (6 hours), in seconds
EVENT_RETENTION_S == 21600

\* this.processedEvents.has(eventId); processed maps event ids to the time
\* they were marked
AlreadyProcessed(e, processed) == \E m \in processed : m.id = e

\* handleYeetEventLogs([log e]) up to its first await (getCurrentYeetPrice);
\* at most `limit` invocations are in progress
Deliver(e, limit) ==
  /\ ~TurnPending
  /\ Watching
  /\ e \in DOMAIN emitted
  /\ Len(handlers) < limit
  /\ applied[e] < MaxDeliveries
  /\ handlers' = IF AlreadyProcessed(e, processedEvents)
                 THEN handlers
                 ELSE Append(handlers, [ev |-> e, pc |-> "price"])
  /\ lastTick' = NoTick /\ lastExec' = NoExec
  /\ UNCHANGED <<calc, manual, lifecycle,
                 engineVars, now, stateVars, botCore, emitted, processedEvents,
                 applied, reported, phaseCheck>>

\* handleYeetEventLogs resumes after await readContract(getCurrentYeetPrice):
\* updateAuction(auctionState), then awaits getYeetCooldownSeconds
PriceReadReturns(h, ok, price) ==
  /\ ~TurnPending
  /\ handlers[h].pc = "price"
  /\ IF ok
     THEN LET ev == emitted[handlers[h].ev]
          IN /\ auction' = [present |-> TRUE,
                            currentPrice |-> price,
                            currentLeader |-> ev.yeeter,
                            leaderAmount |-> ev.value,
                            leaderTimestamp |-> ev.timestamp,
                            isAuctionPhase |-> FALSE,
                            auctionMaxFactor |->
                              IF auction.present /\ auction.auctionMaxFactor # 0
                              THEN auction.auctionMaxFactor ELSE CfgMaxAuctionFactor,
                            lastPaidPrice |-> ev.value,
                            auctionStartTime |-> Undefined]
             /\ applied' = [applied EXCEPT ![handlers[h].ev] = @ + 1]
             /\ handlers' = [handlers EXCEPT ![h].pc = "cooldown"]
     ELSE \* catch: logged, the event stays unmarked
          /\ handlers' = RemoveAt(handlers, h)
          /\ UNCHANGED <<auction, applied>>
  /\ lastTick' = NoTick /\ lastExec' = NoExec
  /\ UNCHANGED <<calc, manual, lifecycle,
                 engineVars, now, auctionParams, bgtPerSecond, isInCooldown, stats,
                 botCore, emitted, processedEvents, reported, phaseCheck>>

\* BotRunner's onYeetCreated handler
onYeetCreated(st, ev) ==
  IF isOurWallet(ev.yeeter, CfgOurWallets)
  THEN recordYeetAttempt(st, TRUE, ev.value)
  ELSE st

\* handleYeetEventLogs resumes after await readContract(getYeetCooldownSeconds):
\* updateCooldown(true), onYeetCreated, processedEvents.set(eventId)
CooldownReadReturns(h, ok) ==
  /\ ~TurnPending
  /\ handlers[h].pc = "cooldown"
  /\ handlers' = RemoveAt(handlers, h)
  /\ IF ok
     THEN /\ isInCooldown' = TRUE
          /\ stats' = onYeetCreated(stats, emitted[handlers[h].ev])
          /\ reported' = [reported EXCEPT ![handlers[h].ev] = @ + 1]
          /\ processedEvents' = {m \in processedEvents : m.id # handlers[h].ev}
                                   \cup {[id |-> handlers[h].ev, at |-> now]}
     ELSE UNCHANGED <<isInCooldown, stats, reported, processedEvents>>
  /\ lastTick' = NoTick /\ lastExec' = NoExec
  /\ UNCHANGED <<calc, manual, lifecycle,
                 engineVars, now, auction, auctionParams, bgtPerSecond, botCore,
                 emitted, applied, phaseCheck>>

\* cleanupProcessedEvents, run by the cleanup interval
cleanupProcessedEvents ==
  /\ ~TurnPending
  /\ Watching
  /\ processedEvents' = {m \in processedEvents : ~(m.at < now - EVENT_RETENTION_S)}
  /\ lastTick' = NoTick /\ lastExec' = NoExec
  /\ UNCHANGED <<calc, manual, lifecycle,
                 engineVars, now, stateVars, botCore, emitted, handlers, applied,
                 reported, phaseCheck>>

\* watchBlocks onBlock: checkAuctionPhase up to await getPricingInfo
BlockArrives ==
  /\ ~TurnPending
  /\ Watching
  /\ phaseCheck.pc = "idle"
  /\ phaseCheck' = [pc |-> "pricing", isInCooldown |-> isInCooldown, auction |-> auction]
  /\ lastTick' = NoTick /\ lastExec' = NoExec
  /\ UNCHANGED <<calc, manual, lifecycle, engineVars, now, stateVars, botCore, emitted, handlers,
                 processedEvents, applied, reported>>

\* checkAuctionPhase resumes after await getPricingInfo; currentState is the
\* snapshot taken before the await
PricingReturns(ok, inCooldown, price) ==
  LET currentState == phaseCheck
      isAuctionPhase == ~inCooldown /\ price < ChainStartPrice
      startTime == now - ChainAuctionTimeElapsed(price)
  IN
  /\ ~TurnPending
  /\ phaseCheck.pc = "pricing"
  /\ IF ~ok
     THEN /\ phaseCheck' = NoPhaseCheck
          /\ UNCHANGED <<auction, isInCooldown>>
     ELSE IF isAuctionPhase /\ currentState.isInCooldown
     THEN /\ isInCooldown' = FALSE
          /\ auction' = IF currentState.auction.present
                        THEN [currentState.auction EXCEPT
                                !.currentPrice = price,
                                !.isAuctionPhase = TRUE,
                                !.auctionStartTime = startTime]
                        ELSE auction
          /\ phaseCheck' = [NoPhaseCheck EXCEPT !.pc = "block"]
     ELSE IF isAuctionPhase /\ currentState.auction.present
     THEN /\ auction' = IF price # currentState.auction.currentPrice
                        THEN [currentState.auction EXCEPT
                                !.currentPrice = price,
                                !.isAuctionPhase = TRUE,
                                !.auctionStartTime =
                                  IF @ # Undefined THEN @ ELSE startTime]
                        ELSE auction
          /\ phaseCheck' = NoPhaseCheck
          /\ UNCHANGED isInCooldown
     ELSE IF ~isAuctionPhase /\ currentState.auction.present
             /\ currentState.auction.isAuctionPhase
     THEN /\ auction' = [currentState.auction EXCEPT !.isAuctionPhase = FALSE]
          /\ isInCooldown' = TRUE
          /\ phaseCheck' = NoPhaseCheck
     ELSE /\ phaseCheck' = NoPhaseCheck
          /\ UNCHANGED <<auction, isInCooldown>>
  /\ lastTick' = NoTick /\ lastExec' = NoExec
  /\ UNCHANGED <<calc, manual, lifecycle,
                 engineVars, now, auctionParams, bgtPerSecond, stats, botCore,
                 emitted, handlers, processedEvents, applied, reported>>

\* checkAuctionPhase resumes after await getBlockNumber():
\* updateAuctionParams, then onAuctionCreated -> startMonitoring()
BlockNumberReturns(ok) ==
  /\ ~TurnPending
  /\ phaseCheck.pc = "block"
  /\ phaseCheck' = NoPhaseCheck
  /\ IF ok
     THEN /\ auctionParams' = ChainParams(now)
          /\ startMonitoring(auction, ChainParams(now))
     ELSE /\ lastTick' = NoTick
          /\ UNCHANGED <<auctionParams, checkInterval, lastEvaluations, yeetLockCount,
                         reqs>>
  /\ lastExec' = NoExec
  /\ UNCHANGED <<calc, manual, lifecycle,
                 rules, engCall, now, auction, bgtPerSecond, isInCooldown, stats,
                 botPc, isRunning, emitted, handlers, processedEvents,
                 applied, reported>>

----------------------------------------------------------------------------
(* The bot: BotRunner with its StateManager and engine, driving the tick   *)
(* loop, forced commits and the serialized execution                       *)

Init ==
  /\ rules = createDecisionEngine
  /\ lastEvaluations = NoEvaluations
  /\ engCall = NoCall
  /\ InitRest

\* the steps of the yeetMutex chain and of executeYeetInternal
Serializer ==
  \/ \E i \in DOMAIN reqs : MutexTurn(i)
  \/ \E i \in DOMAIN reqs, ok \in BOOLEAN, balance \in Balances :
       BalanceReturns(i, ok, balance)
  \/ \E i \in DOMAIN reqs, ok \in BOOLEAN : WriteReturns(i, ok)
  \/ \E i \in DOMAIN reqs, result \in {"success", "reverted", "threw"} :
       ReceiptReturns(i, result)

Next ==
  \/ StartFetch
  \/ StartRunning
  \/ refreshState
  \/ Tick
  \/ forceYeet
  \/ Advance
  \/ Serializer

Spec == Init /\ [][Next]_vars

\* every chained callback gets its turn and every awaited call of
\* executeYeetInternal (getBalance, writeContract,
\* waitForTransactionReceipt) settles
NextFair ==
  \/ StartFetch
  \/ StartRunning
  \/ Tick
  \/ forceYeet
  \/ Advance
  \/ Serializer

SpecFair == Init /\ [][NextFair]_vars /\ WF_vars(Serializer)

----------------------------------------------------------------------------
(* The bot over the rounds of the game: the block-triggered phase check,   *)
(* and the operator's pause(), resume() and stop()                         *)

\* BotRunner.pause(), called while the bot is running
pause ==
  /\ ~TurnPending
  /\ isRunning
  /\ checkInterval' = FALSE
  /\ lifecycle' = [lifecycle EXCEPT !.paused = TRUE]
  /\ lastTick' = NoTick /\ lastExec' = NoExec
  /\ UNCHANGED <<calc, manual, engineVars, now, stateVars, botPc, isRunning,
                 yeetLockCount, reqs, eventVars>>

\* BotRunner.resume(), called while the bot is running
resume ==
  /\ ~TurnPending
  /\ isRunning
  /\ lifecycle' = [lifecycle EXCEPT !.paused = FALSE]
  /\ startMonitoring(auction, auctionParams)
  /\ lastExec' = NoExec
  /\ UNCHANGED <<calc, manual, rules, engCall, now, stateVars, botPc, isRunning,
                 eventVars>>

\* BotRunner.stop() up to `await this.yeetMutex`
stop ==
  /\ ~TurnPending
  /\ isRunning
  /\ isRunning' = FALSE
  /\ checkInterval' = FALSE
  /\ lifecycle' = [lifecycle EXCEPT !.stopPc = "waiting", !.stopToken = yeetLockCount]
  /\ lastTick' = NoTick /\ lastExec' = NoExec
  /\ UNCHANGED <<calc, manual, engineVars, now, stateVars, botPc, yeetLockCount,
                 reqs, eventVars>>

\* BotRunner.stop() resumes after `await this.yeetMutex`:
\* eventManager.stop() unsubscribes the watchers and clears processedEvents
stopResumes ==
  /\ StopReady
  /\ lifecycle' = [lifecycle EXCEPT !.stopPc = "resolved"]
  /\ botPc' = "stopped"
  /\ processedEvents' = {}
  /\ lastTick' = NoTick /\ lastExec' = NoExec
  /\ UNCHANGED <<calc, manual, engineVars, now, stateVars, isRunning, checkInterval,
                 yeetLockCount, reqs, emitted, handlers, applied, reported,
                 phaseCheck>>

NextPhase ==
  \/ StartFetch
  \/ StartRunning
  \/ Tick
  \/ Advance
  \/ Serializer
  \/ BlockArrives
  \/ \E ok \in BOOLEAN, pricing \in ChainPricing : PricingReturns(ok, pricing[1], pricing[2])
  \/ \E ok \in BOOLEAN : BlockNumberReturns(ok)
  \/ pause
  \/ resume
  \/ stop
  \/ stopResumes

SpecPhase == Init /\ [][NextPhase]_vars

\* the started EventManager with both of its watchers: the YeetEvent logs
\* of another player's commits and the blocks
NextRace ==
  \/ StartFetch
  \/ Advance
  \/ EmitYeetEvent(OtherAddress, 4)
  \/ \E e \in DOMAIN emitted : Deliver(e, 1)
  \/ \E h \in DOMAIN handlers, ok \in BOOLEAN, price \in ChainPrices :
       PriceReadReturns(h, ok, price)
  \/ \E h \in DOMAIN handlers, ok \in BOOLEAN : CooldownReadReturns(h, ok)
  \/ BlockArrives
  \/ \E ok \in BOOLEAN, pricing \in ChainPricing : PricingReturns(ok, pricing[1], pricing[2])
  \/ \E ok \in BOOLEAN : BlockNumberReturns(ok)

SpecRace == Init /\ [][NextRace]_vars

----------------------------------------------------------------------------
(* The bot and the settlement events of its own commits                    *)

\* the transaction submitted by the run of request i has been included
Included(i) == \E e \in DOMAIN emitted : emitted[e].tx = reqs[i].lockId

\* the transaction sent by writeContract in the run of request i is included
\* in a block: the contract emits its YeetEvent, msg.sender the bot's wallet
CommitIncluded(i) ==
  /\ ~TurnPending
  /\ reqs[i].st = "receipt"
  /\ ~Included(i)
  /\ Len(emitted) < MaxEvents
  /\ emitted' = Append(emitted, [yeeter |-> OurAddress, value |-> reqs[i].yeetAmount,
                                 timestamp |-> now, tx |-> reqs[i].lockId])
  /\ lastTick' = NoTick /\ lastExec' = NoExec
  /\ UNCHANGED <<calc, manual, lifecycle, engineVars, now, stateVars, botCore, handlers,
                 processedEvents, applied, reported, phaseCheck>>

\* the bot committing on request, the chain including its transactions, and
\* the event watcher; the receipt reports success for an included
\* transaction and a revert for one that emitted nothing
NextOwn ==
  \/ StartFetch
  \/ forceYeet
  \/ \E i \in DOMAIN reqs : MutexTurn(i)
  \/ \E i \in DOMAIN reqs, ok \in BOOLEAN, balance \in Balances :
       BalanceReturns(i, ok, balance)
  \/ \E i \in DOMAIN reqs, ok \in BOOLEAN : WriteReturns(i, ok)
  \/ \E i \in DOMAIN reqs : CommitIncluded(i)
  \/ \E i \in DOMAIN reqs : Included(i) /\ ReceiptReturns(i, "success")
  \/ \E i \in DOMAIN reqs : ~Included(i) /\ ReceiptReturns(i, "reverted")
  \/ \E e \in DOMAIN emitted : Deliver(e, 1)
  \/ \E h \in DOMAIN handlers, ok \in BOOLEAN, price \in ChainPrices :
       PriceReadReturns(h, ok, price)
  \/ \E h \in DOMAIN handlers, ok \in BOOLEAN : CooldownReadReturns(h, ok)

SpecOwn == Init /\ [][NextOwn]_vars

----------------------------------------------------------------------------
(* The bot run from the terminal dashboard (start-dashboard.ts): the same  *)
(* BotRunner, plus the dashboard's own force-yeet callback                 *)

\* callbacks.onForceYeet up to its await of getBalance(); one invocation at
\* a time
onForceYeet ==
  /\ ~TurnPending
  /\ manual.pc = "idle"
  /\ manual.calls < MaxManual
  /\ auction.present
  /\ IF CfgDryRun
     THEN /\ stats' = recordYeetAttempt(stats, TRUE, auction.currentPrice)
          /\ manual' = [manual EXCEPT !.calls = @ + 1]
     ELSE /\ manual' = [pc |-> "balance", yeetAmount |-> auction.currentPrice,
                        calls |-> manual.calls + 1]
          /\ UNCHANGED stats
  /\ lastTick' = NoTick /\ lastExec' = NoExec
  /\ UNCHANGED <<calc, lifecycle, engineVars, now, auction, auctionParams, bgtPerSecond,
                 isInCooldown, botCore, eventVars>>

\* callbacks.onForceYeet resumes after await getBalance(), after await
\* writeContract(...) and after await waitForTransactionReceipt(hash); its
\* catch only logs
onForceYeetResumes(ok, balance, result) ==
  /\ ~TurnPending
  /\ manual.pc # "idle"
  /\ IF manual.pc = "balance"
     THEN /\ manual' = IF ok /\ ~(balance < manual.yeetAmount)
                       THEN [manual EXCEPT !.pc = "write"]
                       ELSE [NoManual EXCEPT !.calls = manual.calls]
          /\ UNCHANGED stats
     ELSE IF manual.pc = "write"
     THEN /\ manual' = IF ok THEN [manual EXCEPT !.pc = "receipt"]
                       ELSE [NoManual EXCEPT !.calls = manual.calls]
          /\ UNCHANGED stats
     ELSE /\ manual' = [NoManual EXCEPT !.calls = manual.calls]
          /\ stats' = IF result = "success"
                      THEN recordYeetAttempt(stats, TRUE, manual.yeetAmount)
                      ELSE IF result = "reverted"
                      THEN recordYeetAttempt(stats, FALSE, 0)
                      ELSE stats
  /\ lastTick' = NoTick /\ lastExec' = NoExec
  /\ UNCHANGED <<calc, lifecycle, engineVars, now, auction, auctionParams, bgtPerSecond,
                 isInCooldown, botCore, eventVars>>

NextDashboard ==
  \/ StartFetch
  \/ StartRunning
  \/ Tick
  \/ forceYeet
  \/ Serializer
  \/ onForceYeet
  \/ \E ok \in BOOLEAN, balance \in Balances, result \in {"success", "reverted", "threw"} :
       onForceYeetResumes(ok, balance, result)

SpecDashboard == Init /\ [][NextDashboard]_vars

----------------------------------------------------------------------------
(* The bot's EventManager receiving settlement events, at least once each  *)

NextEvents ==
  \/ StartFetch
  \/ Advance
  \/ \E yeeter \in {OtherAddress, OurAddress}, value \in EventValues :
       EmitYeetEvent(yeeter, value)
  \/ \E e \in DOMAIN emitted : Deliver(e, MaxHandlers)
  \/ \E h \in DOMAIN handlers, ok \in BOOLEAN, price \in ChainPrices :
       PriceReadReturns(h, ok, price)
  \/ \E h \in DOMAIN handlers, ok \in BOOLEAN : CooldownReadReturns(h, ok)
  \/ cleanupProcessedEvents

SpecEvents == Init /\ [][NextEvents]_vars

----------------------------------------------------------------------------
(* Engine-only specification: arbitrary rules, arbitrary rule outcomes *)

RuleNames == {"R1", "R2", "R3"}

\* what a rule registered under `name` may do on some context
Outcomes(name) ==
  {NoDecision, Thrown}
  \cup {Decision(sy, p, name, "r") : sy \in BOOLEAN, p \in 1..MaxPriority}

\* every way the registered rules, in order, may evaluate one context
RECURSIVE OutcomeSeqs(_)
OutcomeSeqs(names) ==
  IF names = <<>> THEN {<<>>}
  ELSE {<<o>> \o t : o \in Outcomes(Head(names)), t \in OutcomeSeqs(Tail(names))}


InitEngine ==
  /\ rules = <<>>
  /\ lastEvaluations = NoEvaluations
  /\ engCall = NoCall
  /\ InitRest

\* addRule: Map.set keeps the position of an existing key
addRule(name) ==
  /\ Len(rules) < MaxRules
  /\ rules' = IF name \in Range(rules) THEN rules ELSE Append(rules, name)
  /\ UNCHANGED <<calc, manual, lifecycle,
                 lastEvaluations, engCall, now, stateVars, botVars, eventVars>>

\* removeRule: Map.delete
removeRule(name) ==
  /\ rules' = SelectSeq(rules, LAMBDA n : n # name)
  /\ UNCHANGED <<calc, manual, lifecycle,
                 lastEvaluations, engCall, now, stateVars, botVars, eventVars>>

evaluate ==
  \E outs \in OutcomeSeqs(rules) :
    /\ LET res == EngineEvaluate(rules, outs)
       IN /\ lastEvaluations' = StoreEvaluations(res, lastEvaluations)
          /\ engCall' = [made |-> TRUE, threw |-> res.threw, result |-> res.decision,
                         outs |-> IF res.threw THEN <<>> ELSE outs,
                         names |-> IF res.threw THEN <<>> ELSE rules]
    /\ UNCHANGED <<calc, manual, lifecycle, rules, now, stateVars, botVars, eventVars>>

NextEngine ==
  \/ \E n \in RuleNames : addRule(n)
  \/ \E n \in RuleNames : removeRule(n)
  \/ evaluate

SpecEngine == InitEngine /\ [][NextEngine]_vars

----------------------------------------------------------------------------
(* The calculators and the safety rule called on their own, once, on every *)
(* input of a bounded domain                                               *)

otherVars == <<engineVars, now, stateVars, botVars, eventVars, manual, lifecycle>>

CalcPrices == 0..MaxCalcPrice
CalcDurations == 1..MaxCalcDuration
CalcRates == 0..MaxCalcRate
CalcSeconds == 0..MaxCalcSeconds
CalcClockMs == {k * ClockStepMs : k \in 0..MaxClockSteps}
\* auction start times, on and off the whole second
CalcStartMs == {2 * ClockStepMs, 3 * ClockStepMs}
\* checkpoint percentages, in basis points: 0%, 10%, 13%
CalcCheckpoints == {0, 1000, 1300}
\* prices handed to timeToProfit
CalcProfitPrices == CalcPrices \cup {100}
\* configured expected auction durations, seconds
CalcExpectedDurations == {ExpectedAuctionDuration, 2 * ExpectedAuctionDuration}
\* configured maximum commit amounts (wei) and auction factors
CalcMaxAmounts == {0, MaxYeetAmountWei}
CalcFactors == {CfgMaxAuctionFactor - 1000, CfgMaxAuctionFactor, CfgMaxAuctionFactor + 1000}

\* calculateCurrentPrice(params) and timeUntilPrice(params, target) at one
\* clock reading
PriceCall ==
  /\ calc = NoCalc
  /\ \E startPrice \in CalcPrices, minPrice \in CalcPrices,
        duration \in CalcDurations, startMs \in CalcStartMs,
        nowMs \in CalcClockMs, target \in CalcPrices :
       /\ minPrice <= startPrice
       /\ minPrice <= target /\ target <= startPrice
       /\ LET params == [present |-> TRUE, startPrice |-> startPrice,
                         minPrice |-> minPrice, auctionDuration |-> duration,
                         auctionStartTime |-> startMs]
          IN calc' = [op |-> "price", params |-> params, nowMs |-> nowMs,
                      target |-> target,
                      price |-> calculateCurrentPriceMs(params, nowMs),
                      timeUntil |-> timeUntilPrice(params, target, nowMs)]
  /\ UNCHANGED otherVars

\* an auction state led by another player since leaderTimestamp
LedAuction(price, factor, leaderTimestamp) ==
  [present |-> TRUE, currentPrice |-> price, currentLeader |-> OtherAddress,
   leaderAmount |-> price, leaderTimestamp |-> leaderTimestamp,
   isAuctionPhase |-> TRUE, auctionMaxFactor |-> factor,
   lastPaidPrice |-> price, auctionStartTime |-> leaderTimestamp]

\* calculateBGTRewards(rate, leaderTimestamp, t) under an expected auction
\* duration, and StateManager.calculateCurrentBgt() for the same lead, rate
\* and clock
RewardsCall ==
  /\ calc = NoCalc
  /\ \E rate \in CalcRates, leaderTimestamp \in {0, 1}, t \in CalcSeconds,
        expected \in CalcExpectedDurations :
       /\ leaderTimestamp <= t
       /\ calc' = [op |-> "rewards", rate |-> rate,
                   leaderTimestamp |-> leaderTimestamp, t |-> t,
                   expected |-> expected,
                   rewards |->
                     calculateBGTRewardsWith(rate, leaderTimestamp, t, expected),
                   currentBgt |->
                     calculateCurrentBgt(LedAuction(0, 0, leaderTimestamp), rate, t)]
  /\ UNCHANGED otherVars

\* timeToProfit(price, rate, p), and the profit percentage that
\* calculateProfitMetrics gives on calculateBGTRewards after t seconds of lead
ProfitCall ==
  /\ calc = NoCalc
  /\ \E price \in CalcProfitPrices, rate \in CalcRates, p \in CalcCheckpoints,
        t \in CalcSeconds, expected \in CalcExpectedDurations :
       calc' = [op |-> "profit", price |-> price, rate |-> rate, p |-> p, t |-> t,
                expected |-> expected,
                timeToProfit |-> timeToProfitWith(price, rate, p, expected),
                profitPercentage |->
                  calculateProfitMetrics(
                    price, calculateBGTRewardsWith(rate, 0, t, expected))
                    .profitPercentage]
  /\ UNCHANGED otherVars

\* SafetyRule.evaluate on a context that validateRuleContext accepts
SafetyCall ==
  /\ calc = NoCalc
  /\ \E price \in CalcPrices, factor \in CalcFactors,
        maxYeetAmountWei \in CalcMaxAmounts :
       LET a == LedAuction(price, factor, 0)
           ctx == RuleContext(a, calculateCurrentBgt(a, MaxCalcRate, 1), FALSE,
                              a.lastPaidPrice, 1)
       IN calc' = [op |-> "safety", currentPrice |-> price,
                   auctionMaxFactor |-> factor,
                   maxYeetAmountWei |-> maxYeetAmountWei,
                   maxAuctionFactor |-> CfgMaxAuctionFactor,
                   valid |-> ~validateRuleContextThrows(ctx),
                   result |-> SafetyRuleWith(ctx, maxYeetAmountWei, CfgMaxAuctionFactor)]
  /\ UNCHANGED otherVars

\* calculateProfitMetrics(price, bgtRewards) on an accrual record whose rate
\* and total are chosen independently
MetricsCall ==
  /\ calc = NoCalc
  /\ \E price \in CalcPrices, rate \in CalcRates, total \in 0..(2 * MaxCalcPrice) :
       LET bgtRewards == [present |-> TRUE, bgtPerSecond |-> rate,
                          totalAccumulated |-> total, timeElapsed |-> 1]
       IN calc' = [op |-> "metrics", price |-> price, rate |-> rate,
                   total |-> total,
                   metrics |-> calculateProfitMetrics(price, bgtRewards)]
  /\ UNCHANGED otherVars

\* every registered rule evaluated on one context that checkForOpportunity
\* can build: the leader paid 100 and has led for `elapsed` seconds at
\* `rate` (their product is the accrued reward), the current price is below,
\* at or above the price paid, the auction is `age` seconds old; the
\* configured blacklist threshold is 0% or -5%, the parity buffer 0% or 13%
RulesCall ==
  /\ calc = NoCalc
  /\ \E leader \in ChainAddresses \cup {toLowerCase(b) : b \in ChainAddresses},
        rate \in {0, 1, 25},
        elapsed \in (0..4) \cup {90, 95, 100, 102, 105, 112, 113},
        price \in {95, 100, 110},
        age \in {0, EarlyPhaseSeconds, MidPhaseSeconds},
        blacklistThreshold \in {BlacklistProfitThreshold, -500},
        buffer \in {BgtEqualsPriceBuffer, 1300} :
       /\ age <= elapsed
       /\ LET a == [present |-> TRUE, currentPrice |-> price,
                    currentLeader |-> leader, leaderAmount |-> 100,
                    leaderTimestamp |-> 0, isAuctionPhase |-> TRUE,
                    auctionMaxFactor |-> CfgMaxAuctionFactor,
                    lastPaidPrice |-> 100,
                    auctionStartTime |-> elapsed - age]
              bgt == calculateCurrentBgt(a, rate, elapsed)
              ctx == [RuleContext(a, bgt, isOurWallet(leader, CfgOurWallets),
                                  a.lastPaidPrice, elapsed)
                        EXCEPT !.config.blacklistProfitThreshold = blacklistThreshold]
          IN calc' = [op |-> "rules", ctx |-> ctx, buffer |-> buffer,
                      valid |-> ~validateRuleContextThrows(ctx),
                      evals |-> [i \in 1..Len(createDecisionEngine) |->
                                   RuleEvaluate(createDecisionEngine[i], ctx)],
                      parity |-> BGTEqualsCurrentPriceRule(ctx, buffer),
                      marketProgress |-> MarketPriceProgress(ctx),
                      decayProgress |-> AuctionTimeDecayProgress(ctx)]
  /\ UNCHANGED otherVars

NextCalc ==
  \/ RulesCall
  \/ PriceCall
  \/ RewardsCall
  \/ ProfitCall
  \/ SafetyCall
  \/ MetricsCall

SpecCalc == Init /\ [][NextCalc]_vars

----------------------------------------------------------------------------
(* Claims about DecisionEngine.evaluate *)

CallDecisions == CollectDecisions(engCall.outs)
CallReturned == engCall.made /\ ~engCall.threw

\* C3: whenever at least one rule returned a decision with shouldYeet=false,
\* evaluate returns a decision with shouldYeet=false, whatever the
\* priorities of the shouldYeet=true decisions.
C3_BlockingPrecedence ==
  (CallReturned /\ \E i \in 1..Len(CallDecisions) : ~CallDecisions[i].shouldYeet)
    => /\ engCall.result.shouldYeet = FALSE
       /\ engCall.result \in Range(CallDecisions)

\* C3 witness: a blocking decision won over an acting decision of strictly
\* higher priority
C3_Witness ==
  /\ CallReturned
  /\ engCall.result.shouldYeet = FALSE
  /\ \E i \in 1..Len(CallDecisions) :
       /\ CallDecisions[i].shouldYeet
       /\ CallDecisions[i].priority > engCall.result.priority

\* C9: when every returned decision has shouldYeet=true, evaluate returns
\* one of those decisions and no returned decision has a higher priority.
C9_PrioritySelection ==
  (CallReturned /\ Len(CallDecisions) > 0
     /\ \A i \in 1..Len(CallDecisions) : CallDecisions[i].shouldYeet)
    => /\ engCall.result \in Range(CallDecisions)
       /\ \A i \in 1..Len(CallDecisions) :
            CallDecisions[i].priority <= engCall.result.priority

\* C9 witness: several acting decisions of different priorities, the
\* maximum registered last
C9_Witness ==
  /\ CallReturned
  /\ Len(CallDecisions) >= 2
  /\ \A i \in 1..Len(CallDecisions) : CallDecisions[i].shouldYeet
  /\ CallDecisions[1].priority < CallDecisions[Len(CallDecisions)].priority
  /\ engCall.result = CallDecisions[Len(CallDecisions)]

\* C10: when no registered rule returns a decision (also with no rule
\* registered), evaluate returns the default decision: shouldYeet=false,
\* priority 0, reason "No rules triggered", no originating rule.
C10_DefaultDecision ==
  (CallReturned /\ Len(CallDecisions) = 0)
    => /\ engCall.result.shouldYeet = FALSE
       /\ engCall.result.priority = 0
       /\ engCall.result.reason = "No rules triggered"
       /\ engCall.result.ruleName = ""

\* C10 witness: a call with rules registered, none of which decided
C10_Witness ==
  /\ CallReturned
  /\ Len(engCall.names) >= 2
  /\ Len(CallDecisions) = 0
  /\ engCall.result = DefaultDecision

\* the positions of the returned decisions that hold the maximum priority
MaxPriorityPositions ==
  {i \in 1..Len(CallDecisions) :
     \A j \in 1..Len(CallDecisions) :
       CallDecisions[j].priority <= CallDecisions[i].priority}

\* C11: when every returned decision has shouldYeet=true and two or more of
\* them share the maximum priority, evaluate returns the one among them whose
\* rule was registered first, for every registration order.
C11_FirstRegisteredWins ==
  (CallReturned /\ Cardinality(MaxPriorityPositions) >= 2
     /\ \A i \in 1..Len(CallDecisions) : CallDecisions[i].shouldYeet)
    => \E i \in MaxPriorityPositions :
         /\ \A j \in MaxPriorityPositions : i <= j
         /\ engCall.result = CallDecisions[i]

\* C11 witness: R2 registered before R1, both act at the same priority, and
\* the decision of R2 is returned
C11_Witness ==
  /\ CallReturned
  /\ engCall.names = <<"R2", "R1">>
  /\ Len(CallDecisions) = 2
  /\ CallDecisions[1].shouldYeet /\ CallDecisions[2].shouldYeet
  /\ CallDecisions[1].priority = CallDecisions[2].priority
  /\ engCall.result.ruleName = "R2"

----------------------------------------------------------------------------
(* Claims about the serialized execution (BotRunner.executeYeet)           *)

\* the lock ids of the callbacks in rs that still wait for their turn
QueuedIds(rs) == {rs[i].lockId : i \in {j \in DOMAIN rs : rs[j].st = "queued"}}
\* the lock ids of all pending callbacks in rs
PendingIds(rs) == {rs[i].lockId : i \in DOMAIN rs}
\* the requests with an executeYeetInternal run in progress
Running == {i \in DOMAIN reqs : reqs[i].st \in InFlight}

\* C1: for every interleaving of executeYeet calls from ticks and from
\* forceYeet, at most one executeYeetInternal run (balance check,
\* submission, receipt wait) is in progress at any moment.
C1_AtMostOneRun == Cardinality(Running) <= 1

\* C1 witness: a run is in progress while requests from a tick and from
\* forceYeet wait behind it
C1_Witness ==
  /\ Cardinality(Running) = 1
  /\ \E i, j \in DOMAIN reqs :
       /\ reqs[i].st = "queued" /\ reqs[i].src = "tick"
       /\ reqs[j].st = "queued" /\ reqs[j].src = "force"

\* C2: when a queued request's turn arrives and its token is no longer the
\* most recently issued one, the request is discarded: it leaves the chain
\* without an executeYeetInternal run (so nothing is submitted for it) and
\* the session statistics are unchanged.
C2_SupersededDiscarded ==
  [][\A id \in QueuedIds(reqs) :
       (id \notin QueuedIds(reqs') /\ id # yeetLockCount)
         => /\ id \notin PendingIds(reqs')
            /\ stats' = stats]_vars

\* C2 witness: the turn of a request whose token was no longer the latest
\* has just been taken
C2_Witness ==
  /\ lastExec.op = "turn"
  /\ lastExec.lockId # yeetLockCount

\* C4: the value of every commit passed to writeContract is at most the
\* configured maximum commit amount, whether the request came from a tick,
\* from forceYeet, or waited in the queue.
C4_SpendCeiling ==
  \A i \in DOMAIN reqs :
    reqs[i].st \in {"write", "receipt"} => reqs[i].yeetAmount <= MaxYeetAmountWei

\* C6: every execution attempt that fails (insufficient balance, an error
\* thrown, a reverted transaction) is recorded as exactly one failed attempt
\* (totalYeets and failedYeets each increase by one), and the tick loop
\* keeps running.
C6_FailureRecordedOnce ==
  [][lastExec'.outcome \in {"insufficient", "threw", "reverted"}
       => /\ stats'.totalYeets = stats.totalYeets + 1
          /\ stats'.failedYeets = stats.failedYeets + 1
          /\ checkInterval' = checkInterval
          /\ isRunning' = isRunning]_vars

----------------------------------------------------------------------------
(* Claims about the tick (BotRunner.checkForOpportunity)                   *)

\* C7: when rule evaluation throws, the tick's decision is skipped: no
\* commit is enqueued, the tick loop continues, and the engine's retained
\* last trace is still the one of the previous valid tick.
C7_ThrowSkipsTick ==
  [][lastTick'.kind = "threw"
       => /\ reqs' = reqs
          /\ yeetLockCount' = yeetLockCount
          /\ lastEvaluations' = lastEvaluations
          /\ checkInterval'
          /\ (isRunning => isRunning')]_vars

\* C7 witness: a tick on a malformed context has just thrown while the trace
\* of an earlier valid tick is retained
C7_Witness ==
  /\ lastTick.kind = "threw"
  /\ ~lastTick.wellFormed
  /\ lastEvaluations.set
  /\ checkInterval /\ isRunning

\* C8: for every context the tick builds from a valid auction state through
\* the profit calculator (an accrual rate of zero, zero accrued reward and a
\* zero price included), no registered rule throws.
C8_RulesNeverThrow == lastTick.wellFormed => lastTick.kind # "threw"

----------------------------------------------------------------------------
(* Claims about the settlement events (EventManager.handleYeetEventLogs)   *)

\* C5: a settlement event with a given identity is applied to the auction
\* state and reported to the handlers at most once, for every delivery
\* pattern of at-least-once delivery, a duplicate delivered while the first
\* copy is still being processed included.
C5_AppliedAtMostOnce ==
  \A e \in DOMAIN emitted : applied[e] <= 1 /\ reported[e] <= 1

----------------------------------------------------------------------------
(* Claims about the safety rule (SafetyRule.evaluate)                      *)

SafetyExceeds ==
  \/ calc.currentPrice > calc.maxYeetAmountWei
  \/ calc.auctionMaxFactor > calc.maxAuctionFactor

\* C12: on every context that validateRuleContext accepts and for every
\* configured maximum commit amount, the safety rule returns a blocking
\* decision (shouldYeet=false) exactly when the current price is strictly
\* greater than the maximum commit amount or the auction's factor is strictly
\* greater than the configured ceiling; otherwise (equality included) it
\* returns no decision; it never returns shouldYeet=true.
C12_SafetyBlocksExactly ==
  (calc.op = "safety" /\ calc.valid)
    => /\ SafetyExceeds
            => (calc.result.kind = "decision" /\ ~calc.result.shouldYeet)
       /\ ~SafetyExceeds => calc.result.kind = "none"
       /\ ~(calc.result.kind = "decision" /\ calc.result.shouldYeet)

----------------------------------------------------------------------------
(* Claims about the price (PriceCalculator)                                *)

\* whole seconds elapsed since the decay started, at the call's clock reading
CalcElapsedSeconds == (calc.nowMs - calc.params.auctionStartTime) \div MsPerSecond

\* C13: for all auction parameters with start >= floor >= 0 and any clock
\* reading (before the decay start, during the decay, after its end),
\* calculateCurrentPrice returns a value in [floor, start].
C13_PriceWithinRange ==
  calc.op = "price"
    => /\ calc.params.minPrice <= calc.price
       /\ calc.price <= calc.params.startPrice

\* C13 witness: a clock reading after the end of the decay of an auction
\* whose start price is above its floor; the floor is returned
C13_Witness ==
  /\ calc.op = "price"
  /\ calc.params.minPrice < calc.params.startPrice
  /\ CalcElapsedSeconds > calc.params.auctionDuration
  /\ calc.price = calc.params.minPrice

\* C14: calculateCurrentPrice returns start when now <= decay start time,
\* floor when the whole elapsed seconds are >= duration, and otherwise
\* start - (start - floor) * elapsedSeconds / duration, the division
\* truncating.
C14_PriceFormula ==
  calc.op = "price"
    => calc.price =
         IF calc.nowMs <= calc.params.auctionStartTime THEN calc.params.startPrice
         ELSE IF CalcElapsedSeconds >= calc.params.auctionDuration
              THEN calc.params.minPrice
         ELSE calc.params.startPrice
                - ((calc.params.startPrice - calc.params.minPrice) * CalcElapsedSeconds)
                    \div calc.params.auctionDuration

\* C14 witness: a clock reading inside the decay, off the whole second, at
\* which the division leaves a remainder
C14_Witness ==
  /\ calc.op = "price"
  /\ CalcElapsedSeconds > 0
  /\ CalcElapsedSeconds < calc.params.auctionDuration
  /\ (calc.nowMs - calc.params.auctionStartTime) % MsPerSecond # 0
  /\ ((calc.params.startPrice - calc.params.minPrice) * CalcElapsedSeconds)
        % calc.params.auctionDuration # 0
  /\ calc.price < calc.params.startPrice

\* the first instant, from the call's clock reading on, at which
\* calculateCurrentPrice is at or below the call's target
FirstReachMs ==
  IF calc.price <= calc.target THEN calc.nowMs
  ELSE calc.params.auctionStartTime
         + MsPerSecond
             * (CHOOSE k \in 1..calc.params.auctionDuration :
                  /\ PriceAtElapsed(calc.params, k) <= calc.target
                  /\ \A j \in 1..(k - 1) : PriceAtElapsed(calc.params, j) > calc.target)

\* C15: for all auction parameters with start > floor, every target in
\* [floor, start] and every clock reading, timeUntilPrice is never negative,
\* is 0 when the target is already reached, and the first instant at which
\* calculateCurrentPrice is <= target differs from now + timeUntilPrice(target)
\* by at most one second.
C15_TimeUntilPriceInverts ==
  (calc.op = "price" /\ calc.params.startPrice > calc.params.minPrice)
    => /\ calc.timeUntil >= 0
       /\ calc.price <= calc.target => calc.timeUntil = 0
       /\ FirstReachMs - (calc.nowMs + calc.timeUntil * MsPerSecond) <= MsPerSecond
       /\ (calc.nowMs + calc.timeUntil * MsPerSecond) - FirstReachMs <= MsPerSecond

----------------------------------------------------------------------------
(* Claims about the accrual (calculateBGTRewards, calculateCurrentBgt)     *)

CalcElapsed == calc.t - calc.leaderTimestamp

\* C16: for every non-negative elapsed time, calculateBGTRewards returns
\* totalAccumulated = rate * (elapsed + min(elapsed, expectedAuctionDuration))
\* with elapsed = now - leaderTimestamp.
C16_AccrualFormula ==
  calc.op = "rewards"
    => /\ calc.rewards.timeElapsed = CalcElapsed
       /\ calc.rewards.totalAccumulated =
            calc.rate * (CalcElapsed
                         + (IF CalcElapsed <= calc.expected
                            THEN CalcElapsed ELSE calc.expected))

\* C16 witness: a positive rate and an elapsed time longer than the expected
\* auction duration, so that the minimum is the duration
C16_Witness ==
  /\ calc.op = "rewards"
  /\ calc.rate > 0
  /\ CalcElapsed > calc.expected
  /\ calc.rewards.totalAccumulated > calc.rate * CalcElapsed

\* C17: the bgtRewards placed in a tick's rule context has the total of the
\* accrual formula, rate * (elapsed + min(elapsed, expectedAuctionDuration)):
\* the value calculateBGTRewards yields for the stored lead start time, the
\* stored rate and the tick's clock reading.
C17_TickAccrualMatchesFormula ==
  (lastTick.kind \in {"display", "threw", "blocked", "enqueued"}
     /\ calculateCurrentBgt(auction, bgtPerSecond, now).present)
    => lastTick.bgtRewards.totalAccumulated =
         calculateBGTRewards(bgtPerSecond, auction.leaderTimestamp, now).totalAccumulated

\* C18: with the rate and the lead start time held fixed, the accrual at a
\* clock reading is at least the accrual at every earlier clock reading, for
\* calculateBGTRewards and for calculateCurrentBgt.
C18_AccrualMonotone ==
  calc.op = "rewards"
    => \A t1 \in calc.leaderTimestamp..calc.t :
         /\ calculateBGTRewardsWith(calc.rate, calc.leaderTimestamp, t1, calc.expected)
                .totalAccumulated
              <= calc.rewards.totalAccumulated
         /\ calculateCurrentBgt(LedAuction(0, 0, calc.leaderTimestamp), calc.rate, t1)
                .totalAccumulated
              <= calc.currentBgt.totalAccumulated

\* C18 witness: a positive rate and a clock reading past the expected auction
\* duration, where both accruals are above their value one second earlier
C18_Witness ==
  /\ calc.op = "rewards"
  /\ calc.rate > 0
  /\ CalcElapsed > calc.expected
  /\ calculateBGTRewardsWith(calc.rate, calc.leaderTimestamp, calc.t - 1, calc.expected)
         .totalAccumulated
       < calc.rewards.totalAccumulated
  /\ calculateCurrentBgt(LedAuction(0, 0, calc.leaderTimestamp), calc.rate, calc.t - 1)
         .totalAccumulated
       < calc.currentBgt.totalAccumulated

----------------------------------------------------------------------------
(* Claims about the checkpoint times (ProfitCalculator.timeToProfit)       *)

\* pricePaid * (1 + p / 100) / ratePerSecond as a fraction:
\* CalcRequiredNum / CalcRequiredDen
CalcRequiredNum == calc.price * (BASIS_POINTS + calc.p)
CalcRequiredDen == BASIS_POINTS * calc.rate

\* C19: for every checkpoint percentage p the projected time to the
\* checkpoint is infinite when the rate is zero and otherwise is never
\* negative and equals, in whole seconds,
\* max(0, pricePaid * (1 + p/100) / ratePerSecond - expectedAuctionDuration).
C19_TimeToCheckpoint ==
  calc.op = "profit"
    => IF calc.rate = 0 THEN calc.timeToProfit = Infinity
       ELSE /\ calc.timeToProfit >= 0
            /\ CalcRequiredNum
                 < (calc.timeToProfit + calc.expected + 1) * CalcRequiredDen
            /\ calc.timeToProfit > 0
                 => (calc.timeToProfit + calc.expected) * CalcRequiredDen
                      <= CalcRequiredNum

\* C20: for a positive rate and price and every checkpoint p, the profit
\* percentage computed from calculateBGTRewards after t seconds of lead is
\* >= p for every t >= timeToProfit(p) + 1 and < p for every
\* t < timeToProfit(p) - 1.
C20_CheckpointLockstep ==
  (calc.op = "profit" /\ calc.rate > 0 /\ calc.price > 0)
    => /\ calc.t >= calc.timeToProfit + 1 => calc.profitPercentage >= calc.p
       /\ calc.t < calc.timeToProfit - 1 => calc.profitPercentage < calc.p

----------------------------------------------------------------------------
(* Claims about the profit metrics (ProfitCalculator.calculateProfitMetrics) *)

\* q is the quotient num / den (den > 0) truncated towards zero
IsTruncQuotient(q, num, den) ==
  IF num >= 0 THEN q >= 0 /\ q * den <= num /\ num < (q + 1) * den
  ELSE q <= 0 /\ q * den >= num /\ num > (q - 1) * den

\* C21: for pricePaid > 0, calculateProfitMetrics returns
\* netProfit = totalAccrued - pricePaid, a return percentage that is
\* totalAccrued * 10000 / pricePaid truncated (in hundredths of a percent),
\* a profit percentage computed the same way from netProfit, and
\* breakEvenTime = pricePaid / ratePerSecond (BigInt division) when the rate
\* is positive and infinity otherwise.
C21_ProfitMetricsFormulas ==
  (calc.op = "metrics" /\ calc.price > 0)
    => /\ calc.metrics.netProfit = calc.total - calc.price
       /\ IsTruncQuotient(calc.metrics.returnPercentage,
                          calc.total * BASIS_POINTS, calc.price)
       /\ IsTruncQuotient(calc.metrics.profitPercentage,
                          (calc.total - calc.price) * BASIS_POINTS, calc.price)
       /\ IF calc.rate > 0
          THEN IsTruncQuotient(calc.metrics.breakEvenTime, calc.price, calc.rate)
          ELSE calc.metrics.breakEvenTime = Infinity

\* C21 witness: a loss whose percentage is not a whole number of basis
\* points, at a positive rate that does not divide the price
C21_Witness ==
  /\ calc.op = "metrics"
  /\ calc.price > 0 /\ calc.rate > 0
  /\ calc.total < calc.price
  /\ ((calc.price - calc.total) * BASIS_POINTS) % calc.price # 0
  /\ calc.price % calc.rate # 0
  /\ calc.metrics.profitPercentage < 0
  /\ calc.metrics.breakEvenTime > 0

\* C22: a price paid of zero is a defined edge case for every accrual state
\* (any rate, zero included, and any accrued total): calculateProfitMetrics
\* returns, all percentage metrics are 0 and the break-even time is 0.
C22_ZeroPriceDefined ==
  (calc.op = "metrics" /\ calc.price = 0)
    => /\ calc.metrics.returnPercentage = 0
       /\ calc.metrics.profitPercentage = 0
       /\ calc.metrics.breakEvenTime = 0

----------------------------------------------------------------------------
(* Claims about the rules (evaluate of each registered rule)               *)

Acts(d) == d.kind = "decision" /\ d.shouldYeet
RuleCallValid == calc.op = "rules" /\ calc.valid
\* the evaluation of the rule registered under `name` in the observed call
EvalOf(name) ==
  calc.evals[CHOOSE i \in 1..Len(createDecisionEngine) : createDecisionEngine[i] = name]

\* C23: the threshold-parity rule returns an act decision exactly when the
\* accrued reward is >= the price scaled by (1 + profitBuffer/100), boundary
\* inclusive (with buffer 0, accrued = price acts), and returns none when the
\* accrued reward is below that amount.
C23_ParityActsExactly ==
  RuleCallValid
    => LET meets == calc.ctx.bgtRewards.totalAccumulated * BASIS_POINTS
                      >= calc.ctx.auction.currentPrice * (BASIS_POINTS + calc.buffer)
       IN /\ meets => Acts(calc.parity)
          /\ ~meets => calc.parity.kind = "none"

\* the holder of the observed context is the blacklisted address, in the
\* chain's checksum case or in lower case
HolderBlacklisted ==
  calc.ctx.auction.currentLeader \in {BlacklistedAddress, toLowerCase(BlacklistedAddress)}

\* C24: if the current holder is in the blacklist set (the address comparison
\* is case-insensitive), the blacklist rule acts exactly when profit % >= the
\* blacklist threshold, boundary inclusive (-5.0 against threshold -5 acts,
\* -10 does not); it never acts for a holder not in the blacklist.
C24_BlacklistActsExactly ==
  RuleCallValid
    => LET d == EvalOf("Blacklist")
           reached == calc.ctx.profit.profitPercentage
                        >= calc.ctx.config.blacklistProfitThreshold
       IN IF HolderBlacklisted
          THEN /\ reached => Acts(d)
               /\ ~reached => d.kind = "none"
          ELSE d.kind = "none"

\* C24 witness: the blacklisted holder, reported in checksum case, at a
\* profit of exactly -5.0% against the threshold -5%; the rule acts
C24_Witness ==
  /\ RuleCallValid
  /\ calc.ctx.auction.currentLeader = BlacklistedAddress
  /\ BlacklistedAddress \notin calc.ctx.config.blacklistedAddresses
  /\ calc.ctx.config.blacklistProfitThreshold = -500
  /\ calc.ctx.profit.profitPercentage = -500
  /\ Acts(EvalOf("Blacklist"))

\* the holder of the observed context is the caller's own wallet, in either
\* case
HolderOurs ==
  calc.ctx.auction.currentLeader \in {OurAddress, toLowerCase(OurAddress)}

\* the projected time until the leader's profit reaches the percentage
\* `threshold`: timeToProfit for the price the leader paid and the rate
ProjectedTime(threshold) ==
  timeToProfit(calc.ctx.auction.leaderAmount, calc.ctx.bgtRewards.bgtPerSecond, threshold)

\* C25: if the current holder is one of the caller's own wallets, the
\* self-protection rule acts once profit % reaches the self threshold, and
\* also earlier whenever the projected time until the self threshold is
\* reached is within the configured buffer window, also for a self threshold
\* (such as the default 5%) that is not one of the pre-calculated checkpoints;
\* it never acts when the holder is not an own wallet.
C25_SelfProtectionActs ==
  RuleCallValid
    => LET d == EvalOf("SelfProtection")
           threshold == calc.ctx.config.selfProfitThreshold
       IN IF HolderOurs
          THEN /\ calc.ctx.profit.profitPercentage >= threshold => Acts(d)
               /\ ProjectedTime(threshold) < calc.ctx.config.snipeBufferSeconds
                    => Acts(d)
          ELSE d.kind = "none"

\* C26: the standard-snipe rule acts only when the current holder is neither
\* one of the caller's own wallets nor blacklisted; for such a holder it acts
\* exactly when profit % >= the others threshold or the projected time until
\* that threshold is within the buffer window; it and the self-protection
\* rule never both act on the same context.
C26_StandardSnipeActsExactly ==
  RuleCallValid
    => LET d == EvalOf("StandardSnipe")
           threshold == calc.ctx.config.othersProfitThreshold
           due == \/ calc.ctx.profit.profitPercentage >= threshold
                  \/ ProjectedTime(threshold) < calc.ctx.config.snipeBufferSeconds
       IN /\ Acts(d) => (~HolderOurs /\ ~HolderBlacklisted)
          /\ (~HolderOurs /\ ~HolderBlacklisted) => (Acts(d) <=> due)
          /\ ~(Acts(d) /\ Acts(EvalOf("SelfProtection")))

----------------------------------------------------------------------------
(* Claims about the priority constants (RULE_PRIORITIES)                   *)

\* C27: priority constants are globally unique: no two rules registered by
\* createDecisionEngine produce decisions with the same priority.
C27_PrioritiesUnique ==
  RuleCallValid
    => \A i, j \in 1..Len(calc.evals) :
         (i # j /\ calc.evals[i].kind = "decision" /\ calc.evals[j].kind = "decision")
           => calc.evals[i].priority # calc.evals[j].priority

\* the priority the spec scenarios and the tests state for a rule's decisions
\* (0: none stated)
StatedPriority(ruleName) ==
  CASE ruleName = "BGTEqualsCurrentPrice" -> 100
    [] ruleName = "Safety" -> 90
    [] ruleName = "Blacklist" -> 80
    [] ruleName = "SelfProtection" -> 70
    [] ruleName = "StandardSnipe" -> 60
    [] OTHER -> 0

\* C28: decisions carry the priority constants stated by the spec scenarios
\* and the tests: threshold-parity 100, safety 90, blacklist 80,
\* self-protection 70, standard-snipe 60; the threshold-parity rule has the
\* highest priority of all registered rules.
C28_StatedPriorities ==
  RuleCallValid
    => \A i \in 1..Len(calc.evals) :
         calc.evals[i].kind = "decision"
           => /\ StatedPriority(calc.evals[i].ruleName) # 0
                   => calc.evals[i].priority = StatedPriority(calc.evals[i].ruleName)
              /\ calc.evals[i].ruleName # "BGTEqualsCurrentPrice"
                   => calc.evals[i].priority < PRIORITY_BGT_EQUALS_PRICE

----------------------------------------------------------------------------
(* Claims about the thoughts record of an evaluation                       *)

\* C29: every rule evaluation, whether or not the rule decided to act,
\* produces a thoughts record whose progress value lies in [0, 100], for every
\* valid context (prices above the last paid price included); stated for the
\* market-discount rule and the time-decay rule.
C29_ProgressWithinRange ==
  RuleCallValid
    => /\ 0 <= calc.marketProgress /\ calc.marketProgress <= 100
       /\ 0 <= calc.decayProgress /\ calc.decayProgress <= 100

----------------------------------------------------------------------------
(* Claims about the stored trace (DecisionEngine.getLastEvaluations)       *)

\* getLastEvaluations() holds the trace of the observed call: one entry per
\* rule registered at the call, in registration order, flagged triggered
\* exactly for the rules that returned a decision, and the call's decision
TraceOfCall ==
  /\ lastEvaluations.set
  /\ lastEvaluations.decision = engCall.result
  /\ Len(lastEvaluations.allEvaluations) = Len(engCall.names)
  /\ \A i \in 1..Len(engCall.names) :
       /\ lastEvaluations.allEvaluations[i].ruleName = engCall.names[i]
       /\ lastEvaluations.allEvaluations[i].decision = engCall.outs[i]
       /\ lastEvaluations.allEvaluations[i].triggered
            <=> engCall.outs[i].kind = "decision"

\* C30: after every evaluate call that returns, getLastEvaluations returns
\* exactly that call's full trace: one entry per registered rule in
\* registration order, each flagged triggered if and only if that rule
\* returned a decision, together with the same decision that evaluate
\* returned; evaluate leaves the rule registry unchanged.
C30_TraceRetained ==
  /\ [](CallReturned => TraceOfCall)
  /\ [][(engCall' # engCall \/ lastEvaluations' # lastEvaluations)
          => (rules' = rules /\ engCall'.made
              /\ (~engCall'.threw => engCall'.names = rules))]_vars

\* C30 witness: a returned call over two registered rules, registered in an
\* order that is not the order of their names, of which the first returned
\* no decision and the second returned the decision of the call
C30_Witness ==
  /\ CallReturned
  /\ Len(engCall.names) = MaxRules
  /\ engCall.names[1] = "R3"
  /\ ~lastEvaluations.allEvaluations[1].triggered
  /\ lastEvaluations.allEvaluations[Len(engCall.names)].triggered
  /\ lastEvaluations.decision = engCall.outs[Len(engCall.names)]

\* request k is chained on yeetMutex and has not settled
Pending(k) == k \in PendingIds(reqs)

\* C31: provided every execution terminates, every request handed to
\* executeYeet eventually settles; the request that takes its turn is the
\* one with the lowest token among the pending ones; and a run that threw or
\* was reverted leaves the requests chained behind it in place, able to take
\* their turn.
C31_EveryRequestSettles ==
  /\ \A k \in 1..MaxRequests : Pending(k) ~> ~Pending(k)
  /\ [][lastExec'.op = "turn"
          => \A id \in PendingIds(reqs) : lastExec'.lockId <= id]_vars
  /\ [][lastExec'.outcome \in {"threw", "reverted"}
          => PendingIds(reqs') = PendingIds(reqs) \ {lastExec'.lockId}]_vars

\* C31 witness: a run has just thrown or been reverted while a later
\* request waits behind it
C31_Witness ==
  /\ lastExec.outcome \in {"threw", "reverted"}
  /\ lastExec.op \in {"write", "receipt"}
  /\ \E i \in DOMAIN reqs : reqs[i].st = "queued" /\ reqs[i].lockId > lastExec.lockId

\* a commit transaction of the terminal dashboard's callback is submitted
ManualInFlight == manual.pc \in {"write", "receipt"}
\* a commit transaction of a serialized executeYeetInternal run is submitted
SerializedInFlight == \E i \in DOMAIN reqs : reqs[i].st \in {"write", "receipt"}

\* C32: no commit is submitted outside the serializer: whichever way it was
\* triggered (tick, web dashboard, terminal dashboard), a commit transaction
\* is submitted only by a serialized executeYeetInternal run, so a manual
\* force-yeet is never in flight at the same time as another commit.
C32_NoCommitOutsideSerializer ==
  /\ ~ManualInFlight
  /\ ~(ManualInFlight /\ SerializedInFlight)

\* C33: a commit is submitted only if, when the turn of its request came,
\* the state was still in the decay phase and not in cooldown: a request
\* chained before a holder change is not submitted after it.
C33_SubmittedOnlyInDecay ==
  \A i \in DOMAIN reqs : reqs[i].st \in {"write", "receipt"} => reqs[i].inDecay

\* the requests of rs that ticks handed to executeYeet
TickIds(rs) == {rs[i].lockId : i \in {j \in DOMAIN rs : rs[j].src = "tick"}}

\* C34: a tick hands a request to executeYeet only when the state it read
\* is in the decay phase and not in cooldown and the arbitrated decision has
\* shouldYeet = true; a step whose tick was display-only, blocked, defaulted
\* or skipped chains no request.
C34_TickActsOnlyOnDecision ==
  /\ [](lastTick.kind = "enqueued"
          => /\ auction.present /\ auction.isAuctionPhase /\ ~isInCooldown
             /\ lastEvaluations.decision.kind = "decision"
             /\ lastEvaluations.decision.shouldYeet)
  /\ [][lastTick'.kind # "enqueued"
          => /\ TickIds(reqs') \subseteq TickIds(reqs)
             /\ (lastTick'.kind # "none" => reqs' = reqs /\ yeetLockCount' = yeetLockCount)]_vars

\* C34 witness: a tick in the decay phase has just handed its request to
\* executeYeet, after an earlier round had ended in cooldown
C34_Witness ==
  /\ lastTick.kind = "enqueued"
  /\ reqs # <<>>
  /\ reqs[Len(reqs)].src = "tick" /\ reqs[Len(reqs)].lockId = yeetLockCount
  /\ auction.auctionStartTime > 0

\* the stored holder: leader, price paid and lead start time
Holder(a) == <<a.currentLeader, a.leaderAmount, a.leaderTimestamp>>

\* C35: once a holder-change event has been applied to the stored auction
\* state, a phase check that read the state before the event and resumes
\* after it does not replace the stored leader, price paid and lead start
\* time: the step in which checkAuctionPhase resumes from getPricingInfo
\* leaves the stored holder as it found it, and the stored lead start time
\* never moves backwards in such a step.
C35_PhaseCheckKeepsHolder ==
  [][(phaseCheck.pc = "pricing" /\ phaseCheck'.pc # "pricing" /\ auction.present)
       => /\ Holder(auction') = Holder(auction)
          /\ auction'.leaderTimestamp >= auction.leaderTimestamp]_vars

\* the step just taken reconstructed the price: a checkForOpportunity run
\* that found a state, or the start of an executeYeetInternal run
Reconstructed ==
  \/ lastTick.kind \notin {"none", "nostate"}
  \/ lastExec.op = "turn" /\ lastExec.outcome = "started"

\* the stored parameters are not older than the round the stored auction
\* state is in: they do not start before that round's decay started
ParamsOfCurrentRound ==
  auctionParams.auctionStartTime >= auction.auctionStartTime

\* C36: whenever a tick or an execution reconstructs the price while the
\* stored state is in the decay phase, the parameters it uses are those of
\* the current round, not ones left over from an earlier round, and the
\* reconstructed price lies within the round's [floor, start].
C36_PriceFromCurrentRound ==
  (/\ Reconstructed
   /\ auction.present /\ auction.isAuctionPhase /\ auctionParams.present
   /\ auction.auctionStartTime # Undefined)
    => /\ ParamsOfCurrentRound
       /\ getRealtimePrice(auction, auctionParams, now) >= ChainMinPrice
       /\ getRealtimePrice(auction, auctionParams, now) <= ChainStartPrice

\* C37: from a call to pause() until the next call to resume(), monitoring
\* is stopped: the monitoring timer is not set, no checkForOpportunity run
\* is made and no tick hands a request to executeYeet, whatever events
\* (the start of a new auction included) arrive in between.
C37_PausedUntilResume ==
  /\ [](lifecycle.paused => ~checkInterval)
  /\ [][(lifecycle.paused /\ lifecycle'.paused)
          => /\ lastTick'.kind = "none"
             /\ TickIds(reqs') \subseteq TickIds(reqs)]_vars

\* C38: stop() resolves only when the commits chained before it have
\* settled; once stop() has been called no checkForOpportunity run is made
\* and no request is handed to executeYeet, also when a new auction starts
\* while stop() is waiting; and after stop() has resolved no monitoring
\* timer is set and no commit is in flight.
C38_StopIsFinal ==
  /\ [](lifecycle.stopPc = "resolved" => ~checkInterval /\ reqs = <<>>)
  /\ [][lifecycle'.stopPc = "resolved"
          => \A i \in DOMAIN reqs' : reqs'[i].lockId > lifecycle'.stopToken]_vars
  /\ [][lifecycle.stopPc # "none"
          => lastTick'.kind = "none" /\ yeetLockCount' = yeetLockCount]_vars

\* the commits of the bot's own wallet that succeeded on chain
OwnCommits == {e \in DOMAIN emitted : isOurWallet(emitted[e].yeeter, CfgOurWallets)}

\* C39: session statistics count each commit once: the successful attempts
\* recorded, and the attempts recorded beyond the failed ones, never exceed
\* the commits of the bot's own wallet that succeeded on chain, whichever of
\* the receipt and the settlement event is handled first.
C39_CommitCountedOnce ==
  /\ stats.successfulYeets <= Cardinality(OwnCommits)
  /\ stats.totalYeets - stats.failedYeets <= Cardinality(OwnCommits)

====
